---------------------------- MODULE Spec2Model ----------------------------
(***************************************************************************)
(* Model of src/main.py: a Telegram crypto bot made of two threads.        *)
(*   - scheduler_loop: every POLL_SECONDS fetches a price snapshot, scans   *)
(*     the RSS feeds and CryptoPanic (dedup through `seen`), checks the     *)
(*     price predictions (per-target state `seen_targets`), checks the      *)
(*     user levels, then saves `seen`.                                      *)
(*   - commands_loop: long-polls Telegram updates and answers commands.     *)
(* Files are modelled by their parsed contents.  Network answers (prices,   *)
(* feeds, updates) are inputs chosen by \E from small sets.                 *)
(*                                                                          *)
(* Texts that the code searches (titles, summaries) are strings of the      *)
(* model together with their sequence of characters (CHARS); identifiers    *)
(* and links are only concatenated and compared, and stay plain strings.    *)
(* Prices are integers (the code has floats); a missing value is None.      *)
(***************************************************************************)
EXTENDS Integers, Sequences, FiniteSets, TLC

\* Python's None where the code reads a number (px.get("usd"), p.get("target")).
None == -1

(***************************** configuration ******************************)

\* ASSETS / CG_IDS (main.py 19-27)
ASSETS == <<"BTC", "ADA", "ETH", "SOL", "LINK", "AVAX">>

CG_IDS == [BTC |-> "bitcoin", ADA |-> "cardano", ETH |-> "ethereum",
           SOL |-> "solana", LINK |-> "chainlink", AVAX |-> "avalanche-2"]

\* CG_IDS.get(a): the id, or "" (falsy) when a is not a key.
CG_IDS_get(a) == IF a \in DOMAIN CG_IDS THEN CG_IDS[a] ELSE ""

\* USER_ALERTS (main.py 30-51): the entries of BTC and AVAX, verbatim (those
\* of ADA and LINK have fractional levels and are left out); a key the asset
\* does not configure is the empty list (cfg.get(k, [])).
USER_ALERTS ==
    [BTC  |-> [warn_up     |-> <<113000, 114000>>,
               break_even  |-> <<118000>>,
               danger_down |-> <<116000, 103000>>,
               buy_zone    |-> <<>>,
               tp_zone     |-> <<>>],
     AVAX |-> [warn_up     |-> <<>>,
               break_even  |-> <<>>,
               danger_down |-> <<22, 21>>,
               buy_zone    |-> <<23, 23>>,
               tp_zone     |-> <<26, 31>>]]

\* Iteration order of USER_ALERTS.items() (insertion order of the dict).
ALERT_ASSETS == <<"BTC", "AVAX">>

\* FEEDS (main.py 54-91): one asset group with two URLs and one generic group.
\* FEED_URLS is the order in which the two nested loops of scan_feeds visit them.
FEED_URLS ==
    << [group |-> "BTC",     url |-> "https://news.bitcoin.com/feed/"],
       [group |-> "BTC",     url |-> "https://mempool.space/blog/index.xml"],
       [group |-> "_global", url |-> "https://cointelegraph.com/rss"] >>

GENERIC_GROUPS == {"_global", "exchanges", "regulators"}

\* predictions.json (PRED_FILE, main.py 99 and 262): the user's targets.
\* The second one spells its currency in lower case (the code upper-cases it).
PREDICTIONS ==
    [BTC |-> << [target |-> 120000, currency |-> <<"U","S","D">>],
                [target |-> 100000, currency |-> <<"e","u","r">>] >>]

PRED_ASSETS == <<"BTC">>

(******************************** texts ***********************************)

\* The characters of every text the model feeds to the code.
CHARS ==
    [t \in {"", "BTC ETF", "Cardano  hack ", "lawsuit",
            "/start", "/status", "/levels", "/news", " /News btc",
            "/news DOGE", "hello",
            "BTC", "ADA", "ETH", "SOL", "LINK", "AVAX"} |->
        CASE t = ""               -> <<>>
          [] t = "BTC"            -> <<"B","T","C">>
          [] t = "ADA"            -> <<"A","D","A">>
          [] t = "ETH"            -> <<"E","T","H">>
          [] t = "SOL"            -> <<"S","O","L">>
          [] t = "LINK"           -> <<"L","I","N","K">>
          [] t = "AVAX"           -> <<"A","V","A","X">>
          [] t = "BTC ETF"        -> <<"B","T","C"," ","E","T","F">>
          [] t = "Cardano  hack " -> <<"C","a","r","d","a","n","o"," "," ","h","a","c","k"," ">>
          [] t = "lawsuit"        -> <<"l","a","w","s","u","i","t">>
          [] t = "/start"         -> <<"/","s","t","a","r","t">>
          [] t = "/status"        -> <<"/","s","t","a","t","u","s">>
          [] t = "/levels"        -> <<"/","l","e","v","e","l","s">>
          [] t = "/news"          -> <<"/","n","e","w","s">>
          [] t = " /News btc"     -> <<" ","/","N","e","w","s"," ","b","t","c">>
          [] t = "/news DOGE"     -> <<"/","n","e","w","s"," ","D","O","G","E">>
          [] t = "hello"          -> <<"h","e","l","l","o">>]

\* A text is the sequence of its characters.  A printable ASCII character is
\* written as itself, tab, line feed, carriage return and form feed as "\t",
\* "\n", "\r" and "\f", and every other character by its code point, "U+"
\* and at least four hexadecimal digits in upper case: "U+00E9" is the e with
\* an acute accent, "U+212A" the Kelvin sign, "U+000B" the vertical tab, and
\* "U+0060" the grave accent, which a string of TLA+ cannot hold.  So the
\* module holds ASCII only and reads the same in every locale.

\* The printable ASCII characters from the blank to the underscore and from
\* the small a to the tilde, and the hexadecimal digits.
ASCII_20 ==
    " !\"#$%&'()*+,-./0123456789:;<=>?@ABCDEFGHIJKLMNOPQRSTUVWXYZ[\\]^_"

ASCII_61 == "abcdefghijklmnopqrstuvwxyz{|}~"

HEX == "0123456789ABCDEF"

\* n in hexadecimal, with at least `digits` digits.
RECURSIVE hex(_, _)
hex(n, digits) ==
    IF n = 0 /\ digits <= 0 THEN ""
    ELSE hex(n \div 16, digits - 1) \o SubSeq(HEX, (n % 16) + 1, (n % 16) + 1)

\* The number a string of hexadecimal digits writes.
RECURSIVE hex_value(_)
hex_value(s) ==
    IF Len(s) = 0 THEN 0
    ELSE 16 * hex_value(SubSeq(s, 1, Len(s) - 1))
         + (CHOOSE d \in 0..15 : SubSeq(HEX, d + 1, d + 1) = SubSeq(s, Len(s), Len(s)))

\* chr(n): the character with code point n, as the module writes it.
chr(n) ==
    CASE n = 9  -> "\t"
      [] n = 10 -> "\n"
      [] n = 12 -> "\f"
      [] n = 13 -> "\r"
      [] n \in 32..95  -> SubSeq(ASCII_20, n - 31, n - 31)
      [] n \in 97..126 -> SubSeq(ASCII_61, n - 96, n - 96)
      [] OTHER -> "U+" \o hex(n, 4)

\* The tables of the Unicode database (CPython 3.11, Unicode 14) are written
\* as lines of cells of one width, a blank between two cells; code points are
\* five hexadecimal digits.
cells(lines, width) ==
    UNION { {SubSeq(l, k * (width + 1) + 1, k * (width + 1) + width) :
                 k \in 0..((Len(l) + 1) \div (width + 1) - 1)} : l \in lines }

\* The characters of a table of ranges, a cell "LLLLL-HHHHH" being every code
\* point from LLLLL to HHHHH.
characters(lines) ==
    UNION { {chr(n) : n \in hex_value(SubSeq(c, 1, 5))..hex_value(SubSeq(c, 7, 11))} :
                c \in cells(lines, 11) }

\* The characters of a cell "LLLLL-HHHHH/S>TTTTT" of a case mapping, each
\* with what it becomes: LLLLL becomes TTTTT, LLLLL+S becomes TTTTT+S and
\* so on up to HHHHH.
run(lo, hi, step, to) ==
    { <<chr(n), <<chr(to + n - lo)>> >> :
          n \in {m \in lo..hi : (m - lo) % step = 0} }

\* The character of a cell "CCCCC>TTTTT+TTTTT+TTTTT" of a case mapping with the
\* up to three characters it becomes, "....." where there is none.
several(c, to) ==
    <<chr(hex_value(c)), [i \in DOMAIN to |-> chr(hex_value(to[i]))]>>

\* A case mapping as a function from each character it changes to the
\* characters it becomes.
case_mapping(pairs) ==
    [c \in {p[1] : p \in pairs} |-> (CHOOSE p \in pairs : p[1] = c)[2]]

\* The pairs the cells of the two tables of a case mapping stand for.
mapping_pairs(runs, special) ==
    UNION { run(hex_value(SubSeq(c, 1, 5)), hex_value(SubSeq(c, 7, 11)),
                hex_value(SubSeq(c, 13, 13)), hex_value(SubSeq(c, 15, 19))) :
                c \in cells(runs, 19) }
    \cup { several(SubSeq(c, 1, 5),
                   SelectSeq(<<SubSeq(c, 7, 11), SubSeq(c, 13, 17), SubSeq(c, 19, 23)>>,
                             LAMBDA t : t # ".....")) :
               c \in cells(special, 23) }

\* The characters str.lower() changes and what each of them becomes (the
\* lower-case mapping of the Unicode tables of CPython 3.11).
lower_table ==
    case_mapping(mapping_pairs(
         {"00041-0005A/1>00061 000C0-000D6/1>000E0 000D8-000DE/1>000F8",
           "00100-0012E/2>00101 00132-00136/2>00133 00139-00147/2>0013A",
           "0014A-00176/2>0014B 00178-00178/1>000FF 00179-0017D/2>0017A",
           "00181-00181/1>00253 00182-00184/2>00183 00186-00186/1>00254",
           "00187-00187/1>00188 00189-0018A/1>00256 0018B-0018B/1>0018C",
           "0018E-0018E/1>001DD 0018F-0018F/1>00259 00190-00190/1>0025B",
           "00191-00191/1>00192 00193-00193/1>00260 00194-00194/1>00263",
           "00196-00196/1>00269 00197-00197/1>00268 00198-00198/1>00199",
           "0019C-0019C/1>0026F 0019D-0019D/1>00272 0019F-0019F/1>00275",
           "001A0-001A4/2>001A1 001A6-001A6/1>00280 001A7-001A7/1>001A8",
           "001A9-001A9/1>00283 001AC-001AC/1>001AD 001AE-001AE/1>00288",
           "001AF-001AF/1>001B0 001B1-001B2/1>0028A 001B3-001B5/2>001B4",
           "001B7-001B7/1>00292 001B8-001B8/1>001B9 001BC-001BC/1>001BD",
           "001C4-001C4/1>001C6 001C5-001C5/1>001C6 001C7-001C7/1>001C9",
           "001C8-001C8/1>001C9 001CA-001CA/1>001CC 001CB-001DB/2>001CC",
           "001DE-001EE/2>001DF 001F1-001F1/1>001F3 001F2-001F4/2>001F3",
           "001F6-001F6/1>00195 001F7-001F7/1>001BF 001F8-0021E/2>001F9",
           "00220-00220/1>0019E 00222-00232/2>00223 0023A-0023A/1>02C65",
           "0023B-0023B/1>0023C 0023D-0023D/1>0019A 0023E-0023E/1>02C66",
           "00241-00241/1>00242 00243-00243/1>00180 00244-00244/1>00289",
           "00245-00245/1>0028C 00246-0024E/2>00247 00370-00372/2>00371",
           "00376-00376/1>00377 0037F-0037F/1>003F3 00386-00386/1>003AC",
           "00388-0038A/1>003AD 0038C-0038C/1>003CC 0038E-0038F/1>003CD",
           "00391-003A1/1>003B1 003A3-003AB/1>003C3 003CF-003CF/1>003D7",
           "003D8-003EE/2>003D9 003F4-003F4/1>003B8 003F7-003F7/1>003F8",
           "003F9-003F9/1>003F2 003FA-003FA/1>003FB 003FD-003FF/1>0037B",
           "00400-0040F/1>00450 00410-0042F/1>00430 00460-00480/2>00461",
           "0048A-004BE/2>0048B 004C0-004C0/1>004CF 004C1-004CD/2>004C2",
           "004D0-0052E/2>004D1 00531-00556/1>00561 010A0-010C5/1>02D00",
           "010C7-010C7/1>02D27 010CD-010CD/1>02D2D 013A0-013EF/1>0AB70",
           "013F0-013F5/1>013F8 01C90-01CBA/1>010D0 01CBD-01CBF/1>010FD",
           "01E00-01E94/2>01E01 01E9E-01E9E/1>000DF 01EA0-01EFE/2>01EA1",
           "01F08-01F0F/1>01F00 01F18-01F1D/1>01F10 01F28-01F2F/1>01F20",
           "01F38-01F3F/1>01F30 01F48-01F4D/1>01F40 01F59-01F5F/2>01F51",
           "01F68-01F6F/1>01F60 01F88-01F8F/1>01F80 01F98-01F9F/1>01F90",
           "01FA8-01FAF/1>01FA0 01FB8-01FB9/1>01FB0 01FBA-01FBB/1>01F70",
           "01FBC-01FBC/1>01FB3 01FC8-01FCB/1>01F72 01FCC-01FCC/1>01FC3",
           "01FD8-01FD9/1>01FD0 01FDA-01FDB/1>01F76 01FE8-01FE9/1>01FE0",
           "01FEA-01FEB/1>01F7A 01FEC-01FEC/1>01FE5 01FF8-01FF9/1>01F78",
           "01FFA-01FFB/1>01F7C 01FFC-01FFC/1>01FF3 02126-02126/1>003C9",
           "0212A-0212A/1>0006B 0212B-0212B/1>000E5 02132-02132/1>0214E",
           "02160-0216F/1>02170 02183-02183/1>02184 024B6-024CF/1>024D0",
           "02C00-02C2F/1>02C30 02C60-02C60/1>02C61 02C62-02C62/1>0026B",
           "02C63-02C63/1>01D7D 02C64-02C64/1>0027D 02C67-02C6B/2>02C68",
           "02C6D-02C6D/1>00251 02C6E-02C6E/1>00271 02C6F-02C6F/1>00250",
           "02C70-02C70/1>00252 02C72-02C72/1>02C73 02C75-02C75/1>02C76",
           "02C7E-02C7F/1>0023F 02C80-02CE2/2>02C81 02CEB-02CED/2>02CEC",
           "02CF2-02CF2/1>02CF3 0A640-0A66C/2>0A641 0A680-0A69A/2>0A681",
           "0A722-0A72E/2>0A723 0A732-0A76E/2>0A733 0A779-0A77B/2>0A77A",
           "0A77D-0A77D/1>01D79 0A77E-0A786/2>0A77F 0A78B-0A78B/1>0A78C",
           "0A78D-0A78D/1>00265 0A790-0A792/2>0A791 0A796-0A7A8/2>0A797",
           "0A7AA-0A7AA/1>00266 0A7AB-0A7AB/1>0025C 0A7AC-0A7AC/1>00261",
           "0A7AD-0A7AD/1>0026C 0A7AE-0A7AE/1>0026A 0A7B0-0A7B0/1>0029E",
           "0A7B1-0A7B1/1>00287 0A7B2-0A7B2/1>0029D 0A7B3-0A7B3/1>0AB53",
           "0A7B4-0A7C2/2>0A7B5 0A7C4-0A7C4/1>0A794 0A7C5-0A7C5/1>00282",
           "0A7C6-0A7C6/1>01D8E 0A7C7-0A7C9/2>0A7C8 0A7D0-0A7D0/1>0A7D1",
           "0A7D6-0A7D8/2>0A7D7 0A7F5-0A7F5/1>0A7F6 0FF21-0FF3A/1>0FF41",
           "10400-10427/1>10428 104B0-104D3/1>104D8 10570-1057A/1>10597",
           "1057C-1058A/1>105A3 1058C-10592/1>105B3 10594-10595/1>105BB",
           "10C80-10CB2/1>10CC0 118A0-118BF/1>118C0 16E40-16E5F/1>16E60",
           "1E900-1E921/1>1E922"},
         {"00130>00069+00307+....."}))

\* The characters str.upper() changes and what each of them becomes: the
\* sharp s U+00DF becomes "SS", two characters.
upper_table ==
    case_mapping(mapping_pairs(
         {"00061-0007A/1>00041 000B5-000B5/1>0039C 000E0-000F6/1>000C0",
           "000F8-000FE/1>000D8 000FF-000FF/1>00178 00101-0012F/2>00100",
           "00131-00131/1>00049 00133-00137/2>00132 0013A-00148/2>00139",
           "0014B-00177/2>0014A 0017A-0017E/2>00179 0017F-0017F/1>00053",
           "00180-00180/1>00243 00183-00185/2>00182 00188-00188/1>00187",
           "0018C-0018C/1>0018B 00192-00192/1>00191 00195-00195/1>001F6",
           "00199-00199/1>00198 0019A-0019A/1>0023D 0019E-0019E/1>00220",
           "001A1-001A5/2>001A0 001A8-001A8/1>001A7 001AD-001AD/1>001AC",
           "001B0-001B0/1>001AF 001B4-001B6/2>001B3 001B9-001B9/1>001B8",
           "001BD-001BD/1>001BC 001BF-001BF/1>001F7 001C5-001C5/1>001C4",
           "001C6-001C6/1>001C4 001C8-001C8/1>001C7 001C9-001C9/1>001C7",
           "001CB-001CB/1>001CA 001CC-001CC/1>001CA 001CE-001DC/2>001CD",
           "001DD-001DD/1>0018E 001DF-001EF/2>001DE 001F2-001F2/1>001F1",
           "001F3-001F3/1>001F1 001F5-001F5/1>001F4 001F9-0021F/2>001F8",
           "00223-00233/2>00222 0023C-0023C/1>0023B 0023F-00240/1>02C7E",
           "00242-00242/1>00241 00247-0024F/2>00246 00250-00250/1>02C6F",
           "00251-00251/1>02C6D 00252-00252/1>02C70 00253-00253/1>00181",
           "00254-00254/1>00186 00256-00257/1>00189 00259-00259/1>0018F",
           "0025B-0025B/1>00190 0025C-0025C/1>0A7AB 00260-00260/1>00193",
           "00261-00261/1>0A7AC 00263-00263/1>00194 00265-00265/1>0A78D",
           "00266-00266/1>0A7AA 00268-00268/1>00197 00269-00269/1>00196",
           "0026A-0026A/1>0A7AE 0026B-0026B/1>02C62 0026C-0026C/1>0A7AD",
           "0026F-0026F/1>0019C 00271-00271/1>02C6E 00272-00272/1>0019D",
           "00275-00275/1>0019F 0027D-0027D/1>02C64 00280-00280/1>001A6",
           "00282-00282/1>0A7C5 00283-00283/1>001A9 00287-00287/1>0A7B1",
           "00288-00288/1>001AE 00289-00289/1>00244 0028A-0028B/1>001B1",
           "0028C-0028C/1>00245 00292-00292/1>001B7 0029D-0029D/1>0A7B2",
           "0029E-0029E/1>0A7B0 00345-00345/1>00399 00371-00373/2>00370",
           "00377-00377/1>00376 0037B-0037D/1>003FD 003AC-003AC/1>00386",
           "003AD-003AF/1>00388 003B1-003C1/1>00391 003C2-003C2/1>003A3",
           "003C3-003CB/1>003A3 003CC-003CC/1>0038C 003CD-003CE/1>0038E",
           "003D0-003D0/1>00392 003D1-003D1/1>00398 003D5-003D5/1>003A6",
           "003D6-003D6/1>003A0 003D7-003D7/1>003CF 003D9-003EF/2>003D8",
           "003F0-003F0/1>0039A 003F1-003F1/1>003A1 003F2-003F2/1>003F9",
           "003F3-003F3/1>0037F 003F5-003F5/1>00395 003F8-003F8/1>003F7",
           "003FB-003FB/1>003FA 00430-0044F/1>00410 00450-0045F/1>00400",
           "00461-00481/2>00460 0048B-004BF/2>0048A 004C2-004CE/2>004C1",
           "004CF-004CF/1>004C0 004D1-0052F/2>004D0 00561-00586/1>00531",
           "010D0-010FA/1>01C90 010FD-010FF/1>01CBD 013F8-013FD/1>013F0",
           "01C80-01C80/1>00412 01C81-01C81/1>00414 01C82-01C82/1>0041E",
           "01C83-01C84/1>00421 01C85-01C85/1>00422 01C86-01C86/1>0042A",
           "01C87-01C87/1>00462 01C88-01C88/1>0A64A 01D79-01D79/1>0A77D",
           "01D7D-01D7D/1>02C63 01D8E-01D8E/1>0A7C6 01E01-01E95/2>01E00",
           "01E9B-01E9B/1>01E60 01EA1-01EFF/2>01EA0 01F00-01F07/1>01F08",
           "01F10-01F15/1>01F18 01F20-01F27/1>01F28 01F30-01F37/1>01F38",
           "01F40-01F45/1>01F48 01F51-01F57/2>01F59 01F60-01F67/1>01F68",
           "01F70-01F71/1>01FBA 01F72-01F75/1>01FC8 01F76-01F77/1>01FDA",
           "01F78-01F79/1>01FF8 01F7A-01F7B/1>01FEA 01F7C-01F7D/1>01FFA",
           "01FB0-01FB1/1>01FB8 01FBE-01FBE/1>00399 01FD0-01FD1/1>01FD8",
           "01FE0-01FE1/1>01FE8 01FE5-01FE5/1>01FEC 0214E-0214E/1>02132",
           "02170-0217F/1>02160 02184-02184/1>02183 024D0-024E9/1>024B6",
           "02C30-02C5F/1>02C00 02C61-02C61/1>02C60 02C65-02C65/1>0023A",
           "02C66-02C66/1>0023E 02C68-02C6C/2>02C67 02C73-02C73/1>02C72",
           "02C76-02C76/1>02C75 02C81-02CE3/2>02C80 02CEC-02CEE/2>02CEB",
           "02CF3-02CF3/1>02CF2 02D00-02D25/1>010A0 02D27-02D27/1>010C7",
           "02D2D-02D2D/1>010CD 0A641-0A66D/2>0A640 0A681-0A69B/2>0A680",
           "0A723-0A72F/2>0A722 0A733-0A76F/2>0A732 0A77A-0A77C/2>0A779",
           "0A77F-0A787/2>0A77E 0A78C-0A78C/1>0A78B 0A791-0A793/2>0A790",
           "0A794-0A794/1>0A7C4 0A797-0A7A9/2>0A796 0A7B5-0A7C3/2>0A7B4",
           "0A7C8-0A7CA/2>0A7C7 0A7D1-0A7D1/1>0A7D0 0A7D7-0A7D9/2>0A7D6",
           "0A7F6-0A7F6/1>0A7F5 0AB53-0AB53/1>0A7B3 0AB70-0ABBF/1>013A0",
           "0FF41-0FF5A/1>0FF21 10428-1044F/1>10400 104D8-104FB/1>104B0",
           "10597-105A1/1>10570 105A3-105B1/1>1057C 105B3-105B9/1>1058C",
           "105BB-105BC/1>10594 10CC0-10CF2/1>10C80 118C0-118DF/1>118A0",
           "16E60-16E7F/1>16E40 1E922-1E943/1>1E900"},
         {"000DF>00053+00053+..... 00149>002BC+0004E+..... 001F0>0004A+0030C+.....",
           "00390>00399+00308+00301 003B0>003A5+00308+00301 00587>00535+00552+.....",
           "01E96>00048+00331+..... 01E97>00054+00308+..... 01E98>00057+0030A+.....",
           "01E99>00059+0030A+..... 01E9A>00041+002BE+..... 01F50>003A5+00313+.....",
           "01F52>003A5+00313+00300 01F54>003A5+00313+00301 01F56>003A5+00313+00342",
           "01F80>01F08+00399+..... 01F81>01F09+00399+..... 01F82>01F0A+00399+.....",
           "01F83>01F0B+00399+..... 01F84>01F0C+00399+..... 01F85>01F0D+00399+.....",
           "01F86>01F0E+00399+..... 01F87>01F0F+00399+..... 01F88>01F08+00399+.....",
           "01F89>01F09+00399+..... 01F8A>01F0A+00399+..... 01F8B>01F0B+00399+.....",
           "01F8C>01F0C+00399+..... 01F8D>01F0D+00399+..... 01F8E>01F0E+00399+.....",
           "01F8F>01F0F+00399+..... 01F90>01F28+00399+..... 01F91>01F29+00399+.....",
           "01F92>01F2A+00399+..... 01F93>01F2B+00399+..... 01F94>01F2C+00399+.....",
           "01F95>01F2D+00399+..... 01F96>01F2E+00399+..... 01F97>01F2F+00399+.....",
           "01F98>01F28+00399+..... 01F99>01F29+00399+..... 01F9A>01F2A+00399+.....",
           "01F9B>01F2B+00399+..... 01F9C>01F2C+00399+..... 01F9D>01F2D+00399+.....",
           "01F9E>01F2E+00399+..... 01F9F>01F2F+00399+..... 01FA0>01F68+00399+.....",
           "01FA1>01F69+00399+..... 01FA2>01F6A+00399+..... 01FA3>01F6B+00399+.....",
           "01FA4>01F6C+00399+..... 01FA5>01F6D+00399+..... 01FA6>01F6E+00399+.....",
           "01FA7>01F6F+00399+..... 01FA8>01F68+00399+..... 01FA9>01F69+00399+.....",
           "01FAA>01F6A+00399+..... 01FAB>01F6B+00399+..... 01FAC>01F6C+00399+.....",
           "01FAD>01F6D+00399+..... 01FAE>01F6E+00399+..... 01FAF>01F6F+00399+.....",
           "01FB2>01FBA+00399+..... 01FB3>00391+00399+..... 01FB4>00386+00399+.....",
           "01FB6>00391+00342+..... 01FB7>00391+00342+00399 01FBC>00391+00399+.....",
           "01FC2>01FCA+00399+..... 01FC3>00397+00399+..... 01FC4>00389+00399+.....",
           "01FC6>00397+00342+..... 01FC7>00397+00342+00399 01FCC>00397+00399+.....",
           "01FD2>00399+00308+00300 01FD3>00399+00308+00301 01FD6>00399+00342+.....",
           "01FD7>00399+00308+00342 01FE2>003A5+00308+00300 01FE3>003A5+00308+00301",
           "01FE4>003A1+00313+..... 01FE6>003A5+00342+..... 01FE7>003A5+00308+00342",
           "01FF2>01FFA+00399+..... 01FF3>003A9+00399+..... 01FF4>0038F+00399+.....",
           "01FF6>003A9+00342+..... 01FF7>003A9+00342+00399 01FFC>003A9+00399+.....",
           "0FB00>00046+00046+..... 0FB01>00046+00049+..... 0FB02>00046+0004C+.....",
           "0FB03>00046+00046+00049 0FB04>00046+00046+0004C 0FB05>00053+00054+.....",
           "0FB06>00053+00054+..... 0FB13>00544+00546+..... 0FB14>00544+00535+.....",
           "0FB15>00544+0053B+..... 0FB16>0054E+00546+..... 0FB17>00544+0053D+....."}))

\* The case-ignorable characters (_PyUnicode_IsCaseIgnorable).
CASE_IGNORABLE ==
    characters(
         {"00027-00027 0002E-0002E 0003A-0003A 0005E-0005E 00060-00060 000A8-000A8",
           "000AD-000AD 000AF-000AF 000B4-000B4 000B7-000B8 002B0-0036F 00374-00375",
           "0037A-0037A 00384-00385 00387-00387 00483-00489 00559-00559 0055F-0055F",
           "00591-005BD 005BF-005BF 005C1-005C2 005C4-005C5 005C7-005C7 005F4-005F4",
           "00600-00605 00610-0061A 0061C-0061C 00640-00640 0064B-0065F 00670-00670",
           "006D6-006DD 006DF-006E8 006EA-006ED 0070F-0070F 00711-00711 00730-0074A",
           "007A6-007B0 007EB-007F5 007FA-007FA 007FD-007FD 00816-0082D 00859-0085B",
           "00888-00888 00890-00891 00898-0089F 008C9-00902 0093A-0093A 0093C-0093C",
           "00941-00948 0094D-0094D 00951-00957 00962-00963 00971-00971 00981-00981",
           "009BC-009BC 009C1-009C4 009CD-009CD 009E2-009E3 009FE-009FE 00A01-00A02",
           "00A3C-00A3C 00A41-00A42 00A47-00A48 00A4B-00A4D 00A51-00A51 00A70-00A71",
           "00A75-00A75 00A81-00A82 00ABC-00ABC 00AC1-00AC5 00AC7-00AC8 00ACD-00ACD",
           "00AE2-00AE3 00AFA-00AFF 00B01-00B01 00B3C-00B3C 00B3F-00B3F 00B41-00B44",
           "00B4D-00B4D 00B55-00B56 00B62-00B63 00B82-00B82 00BC0-00BC0 00BCD-00BCD",
           "00C00-00C00 00C04-00C04 00C3C-00C3C 00C3E-00C40 00C46-00C48 00C4A-00C4D",
           "00C55-00C56 00C62-00C63 00C81-00C81 00CBC-00CBC 00CBF-00CBF 00CC6-00CC6",
           "00CCC-00CCD 00CE2-00CE3 00D00-00D01 00D3B-00D3C 00D41-00D44 00D4D-00D4D",
           "00D62-00D63 00D81-00D81 00DCA-00DCA 00DD2-00DD4 00DD6-00DD6 00E31-00E31",
           "00E34-00E3A 00E46-00E4E 00EB1-00EB1 00EB4-00EBC 00EC6-00EC6 00EC8-00ECD",
           "00F18-00F19 00F35-00F35 00F37-00F37 00F39-00F39 00F71-00F7E 00F80-00F84",
           "00F86-00F87 00F8D-00F97 00F99-00FBC 00FC6-00FC6 0102D-01030 01032-01037",
           "01039-0103A 0103D-0103E 01058-01059 0105E-01060 01071-01074 01082-01082",
           "01085-01086 0108D-0108D 0109D-0109D 010FC-010FC 0135D-0135F 01712-01714",
           "01732-01733 01752-01753 01772-01773 017B4-017B5 017B7-017BD 017C6-017C6",
           "017C9-017D3 017D7-017D7 017DD-017DD 0180B-0180F 01843-01843 01885-01886",
           "018A9-018A9 01920-01922 01927-01928 01932-01932 01939-0193B 01A17-01A18",
           "01A1B-01A1B 01A56-01A56 01A58-01A5E 01A60-01A60 01A62-01A62 01A65-01A6C",
           "01A73-01A7C 01A7F-01A7F 01AA7-01AA7 01AB0-01ACE 01B00-01B03 01B34-01B34",
           "01B36-01B3A 01B3C-01B3C 01B42-01B42 01B6B-01B73 01B80-01B81 01BA2-01BA5",
           "01BA8-01BA9 01BAB-01BAD 01BE6-01BE6 01BE8-01BE9 01BED-01BED 01BEF-01BF1",
           "01C2C-01C33 01C36-01C37 01C78-01C7D 01CD0-01CD2 01CD4-01CE0 01CE2-01CE8",
           "01CED-01CED 01CF4-01CF4 01CF8-01CF9 01D2C-01D6A 01D78-01D78 01D9B-01DFF",
           "01FBD-01FBD 01FBF-01FC1 01FCD-01FCF 01FDD-01FDF 01FED-01FEF 01FFD-01FFE",
           "0200B-0200F 02018-02019 02024-02024 02027-02027 0202A-0202E 02060-02064",
           "02066-0206F 02071-02071 0207F-0207F 02090-0209C 020D0-020F0 02C7C-02C7D",
           "02CEF-02CF1 02D6F-02D6F 02D7F-02D7F 02DE0-02DFF 02E2F-02E2F 03005-03005",
           "0302A-0302D 03031-03035 0303B-0303B 03099-0309E 030FC-030FE 0A015-0A015",
           "0A4F8-0A4FD 0A60C-0A60C 0A66F-0A672 0A674-0A67D 0A67F-0A67F 0A69C-0A69F",
           "0A6F0-0A6F1 0A700-0A721 0A770-0A770 0A788-0A78A 0A7F2-0A7F4 0A7F8-0A7F9",
           "0A802-0A802 0A806-0A806 0A80B-0A80B 0A825-0A826 0A82C-0A82C 0A8C4-0A8C5",
           "0A8E0-0A8F1 0A8FF-0A8FF 0A926-0A92D 0A947-0A951 0A980-0A982 0A9B3-0A9B3",
           "0A9B6-0A9B9 0A9BC-0A9BD 0A9CF-0A9CF 0A9E5-0A9E6 0AA29-0AA2E 0AA31-0AA32",
           "0AA35-0AA36 0AA43-0AA43 0AA4C-0AA4C 0AA70-0AA70 0AA7C-0AA7C 0AAB0-0AAB0",
           "0AAB2-0AAB4 0AAB7-0AAB8 0AABE-0AABF 0AAC1-0AAC1 0AADD-0AADD 0AAEC-0AAED",
           "0AAF3-0AAF4 0AAF6-0AAF6 0AB5B-0AB5F 0AB69-0AB6B 0ABE5-0ABE5 0ABE8-0ABE8",
           "0ABED-0ABED 0FB1E-0FB1E 0FBB2-0FBC2 0FE00-0FE0F 0FE13-0FE13 0FE20-0FE2F",
           "0FE52-0FE52 0FE55-0FE55 0FEFF-0FEFF 0FF07-0FF07 0FF0E-0FF0E 0FF1A-0FF1A",
           "0FF3E-0FF3E 0FF40-0FF40 0FF70-0FF70 0FF9E-0FF9F 0FFE3-0FFE3 0FFF9-0FFFB",
           "101FD-101FD 102E0-102E0 10376-1037A 10780-10785 10787-107B0 107B2-107BA",
           "10A01-10A03 10A05-10A06 10A0C-10A0F 10A38-10A3A 10A3F-10A3F 10AE5-10AE6",
           "10D24-10D27 10EAB-10EAC 10F46-10F50 10F82-10F85 11001-11001 11038-11046",
           "11070-11070 11073-11074 1107F-11081 110B3-110B6 110B9-110BA 110BD-110BD",
           "110C2-110C2 110CD-110CD 11100-11102 11127-1112B 1112D-11134 11173-11173",
           "11180-11181 111B6-111BE 111C9-111CC 111CF-111CF 1122F-11231 11234-11234",
           "11236-11237 1123E-1123E 112DF-112DF 112E3-112EA 11300-11301 1133B-1133C",
           "11340-11340 11366-1136C 11370-11374 11438-1143F 11442-11444 11446-11446",
           "1145E-1145E 114B3-114B8 114BA-114BA 114BF-114C0 114C2-114C3 115B2-115B5",
           "115BC-115BD 115BF-115C0 115DC-115DD 11633-1163A 1163D-1163D 1163F-11640",
           "116AB-116AB 116AD-116AD 116B0-116B5 116B7-116B7 1171D-1171F 11722-11725",
           "11727-1172B 1182F-11837 11839-1183A 1193B-1193C 1193E-1193E 11943-11943",
           "119D4-119D7 119DA-119DB 119E0-119E0 11A01-11A0A 11A33-11A38 11A3B-11A3E",
           "11A47-11A47 11A51-11A56 11A59-11A5B 11A8A-11A96 11A98-11A99 11C30-11C36",
           "11C38-11C3D 11C3F-11C3F 11C92-11CA7 11CAA-11CB0 11CB2-11CB3 11CB5-11CB6",
           "11D31-11D36 11D3A-11D3A 11D3C-11D3D 11D3F-11D45 11D47-11D47 11D90-11D91",
           "11D95-11D95 11D97-11D97 11EF3-11EF4 13430-13438 16AF0-16AF4 16B30-16B36",
           "16B40-16B43 16F4F-16F4F 16F8F-16F9F 16FE0-16FE1 16FE3-16FE4 1AFF0-1AFF3",
           "1AFF5-1AFFB 1AFFD-1AFFE 1BC9D-1BC9E 1BCA0-1BCA3 1CF00-1CF2D 1CF30-1CF46",
           "1D167-1D169 1D173-1D182 1D185-1D18B 1D1AA-1D1AD 1D242-1D244 1DA00-1DA36",
           "1DA3B-1DA6C 1DA75-1DA75 1DA84-1DA84 1DA9B-1DA9F 1DAA1-1DAAF 1E000-1E006",
           "1E008-1E018 1E01B-1E021 1E023-1E024 1E026-1E02A 1E130-1E13D 1E2AE-1E2AE",
           "1E2EC-1E2EF 1E8D0-1E8D6 1E944-1E94B 1F3FB-1F3FF E0001-E0001 E0020-E007F",
           "E0100-E01EF"})

\* The cased characters (_PyUnicode_IsCased) among those that are not
\* case-ignorable, the only ones final_sigma asks about.
CASED ==
    characters(
         {"00041-0005A 00061-0007A 000AA-000AA 000B5-000B5 000BA-000BA 000C0-000D6",
           "000D8-000F6 000F8-001BA 001BC-001BF 001C4-00293 00295-002AF 00370-00373",
           "00376-00377 0037B-0037D 0037F-0037F 00386-00386 00388-0038A 0038C-0038C",
           "0038E-003A1 003A3-003F5 003F7-00481 0048A-0052F 00531-00556 00560-00588",
           "010A0-010C5 010C7-010C7 010CD-010CD 010D0-010FA 010FD-010FF 013A0-013F5",
           "013F8-013FD 01C80-01C88 01C90-01CBA 01CBD-01CBF 01D00-01D2B 01D6B-01D77",
           "01D79-01D9A 01E00-01F15 01F18-01F1D 01F20-01F45 01F48-01F4D 01F50-01F57",
           "01F59-01F59 01F5B-01F5B 01F5D-01F5D 01F5F-01F7D 01F80-01FB4 01FB6-01FBC",
           "01FBE-01FBE 01FC2-01FC4 01FC6-01FCC 01FD0-01FD3 01FD6-01FDB 01FE0-01FEC",
           "01FF2-01FF4 01FF6-01FFC 02102-02102 02107-02107 0210A-02113 02115-02115",
           "02119-0211D 02124-02124 02126-02126 02128-02128 0212A-0212D 0212F-02134",
           "02139-02139 0213C-0213F 02145-02149 0214E-0214E 02160-0217F 02183-02184",
           "024B6-024E9 02C00-02C7B 02C7E-02CE4 02CEB-02CEE 02CF2-02CF3 02D00-02D25",
           "02D27-02D27 02D2D-02D2D 0A640-0A66D 0A680-0A69B 0A722-0A76F 0A771-0A787",
           "0A78B-0A78E 0A790-0A7CA 0A7D0-0A7D1 0A7D3-0A7D3 0A7D5-0A7D9 0A7F5-0A7F6",
           "0A7FA-0A7FA 0AB30-0AB5A 0AB60-0AB68 0AB70-0ABBF 0FB00-0FB06 0FB13-0FB17",
           "0FF21-0FF3A 0FF41-0FF5A 10400-1044F 104B0-104D3 104D8-104FB 10570-1057A",
           "1057C-1058A 1058C-10592 10594-10595 10597-105A1 105A3-105B1 105B3-105B9",
           "105BB-105BC 10C80-10CB2 10CC0-10CF2 118A0-118DF 16E40-16E7F 1D400-1D454",
           "1D456-1D49C 1D49E-1D49F 1D4A2-1D4A2 1D4A5-1D4A6 1D4A9-1D4AC 1D4AE-1D4B9",
           "1D4BB-1D4BB 1D4BD-1D4C3 1D4C5-1D505 1D507-1D50A 1D50D-1D514 1D516-1D51C",
           "1D51E-1D539 1D53B-1D53E 1D540-1D544 1D546-1D546 1D54A-1D550 1D552-1D6A5",
           "1D6A8-1D6C0 1D6C2-1D6DA 1D6DC-1D6FA 1D6FC-1D714 1D716-1D734 1D736-1D74E",
           "1D750-1D76E 1D770-1D788 1D78A-1D7A8 1D7AA-1D7C2 1D7C4-1D7CB 1DF00-1DF09",
           "1DF0B-1DF1E 1E900-1E943 1F130-1F149 1F150-1F169 1F170-1F189"})

\* The characters c becomes under a case mapping.
mapped(table, c) == IF c \in DOMAIN table THEN table[c] ELSE <<c>>

\* str.lower() on one character alone: the characters it becomes.
lower_char(c) == mapped(lower_table, c)

\* handle_capital_sigma of CPython: the capital sigma at s[i] ends a word, that
\* is, it follows a cased character and no cased character follows it, the
\* case-ignorable characters in between not counted.
final_sigma(s, i) ==
    LET ends_word(kind) ==
            LET before == {j \in 1..(i - 1) : kind[j] # "ignorable"}
                after  == {j \in (i + 1)..Len(s) : kind[j] # "ignorable"}
            IN  /\ \E j \in before : kind[j] = "cased" /\ \A k \in before : k <= j
                /\ ~\E j \in after : kind[j] = "cased" /\ \A k \in after : k >= j
    IN  ends_word([j \in DOMAIN s |->
                      IF s[j] \in CASE_IGNORABLE THEN "ignorable"
                      ELSE IF s[j] \in CASED THEN "cased"
                      ELSE "other"])

\* str.lower() from the i-th character on: every character by lower_table, a
\* capital sigma that ends a word as the final sigma U+03C2.
RECURSIVE lower_from(_, _)
lower_from(s, i) ==
    IF i > Len(s) THEN <<>>
    ELSE (IF s[i] = "U+03A3" /\ final_sigma(s, i)
          THEN <<"U+03C2">>
          ELSE lower_char(s[i])) \o lower_from(s, i + 1)

\* str.lower()
lower(s) == lower_from(s, 1)

\* str.upper() on one character: the characters it becomes.
upper_char(c) == mapped(upper_table, c)

\* str.upper()
RECURSIVE upper(_)
upper(s) == IF s = <<>> THEN <<>> ELSE upper_char(s[1]) \o upper(Tail(s))

\* What \s of a str pattern matches and str.strip() and str.split() remove
\* (str.isspace()).
WHITESPACE ==
    {"\t", "\n", "U+000B", "\f", "\r", "U+001C", "U+001D",
     "U+001E", "U+001F", " ", "U+0085", "U+00A0", "U+1680", "U+2000",
     "U+2001", "U+2002", "U+2003", "U+2004", "U+2005", "U+2006", "U+2007",
     "U+2008", "U+2009", "U+200A", "U+2028", "U+2029", "U+202F", "U+205F",
     "U+3000"}

\* re.sub(r"\s+", " ", s): every run of whitespace becomes one blank.
RECURSIVE collapse(_)
collapse(s) ==
    IF s = <<>> THEN <<>>
    ELSE IF s[1] \in WHITESPACE
         THEN IF Len(s) >= 2 /\ s[2] \in WHITESPACE
              THEN collapse(Tail(s))
              ELSE <<" ">> \o collapse(Tail(s))
         ELSE <<s[1]>> \o collapse(Tail(s))

\* str.strip()
RECURSIVE lstrip(_)
lstrip(s) == IF s # <<>> /\ s[1] \in WHITESPACE THEN lstrip(Tail(s)) ELSE s

RECURSIVE rstrip(_)
rstrip(s) ==
    IF s # <<>> /\ s[Len(s)] \in WHITESPACE
    THEN rstrip(SubSeq(s, 1, Len(s) - 1))
    ELSE s

\* norm (main.py 157-158)
norm(s) == rstrip(lstrip(collapse(s)))

\* t.startswith(k)
startswith(t, k) == Len(t) >= Len(k) /\ SubSeq(t, 1, Len(k)) = k

\* The first word of s and what follows it, for str.split().
RECURSIVE first_word(_)
first_word(s) ==
    IF s = <<>> \/ s[1] \in WHITESPACE THEN <<>>
    ELSE <<s[1]>> \o first_word(Tail(s))

\* str.split(): the words between runs of whitespace.
RECURSIVE split(_)
split(s) ==
    LET t == lstrip(s) IN
    IF t = <<>> THEN <<>>
    ELSE <<first_word(t)>> \o split(SubSeq(t, Len(first_word(t)) + 1, Len(t)))

\* k in t  (substring)
contains(t, k) ==
    \E i \in 0..(Len(t) - Len(k)) : SubSeq(t, i + 1, i + Len(k)) = k

\* t.endswith(k)
endswith(t, k) ==
    Len(t) >= Len(k) /\ SubSeq(t, Len(t) - Len(k) + 1, Len(t)) = k

\* f"{title} {summary}".lower()
joined(title, summary) == lower(title \o <<" ">> \o summary)

\* detect_asset (main.py 160-168); "" stands for the None it returns.
detect_asset(title, summary) ==
    LET asset(t) ==
            IF contains(t, <<"b","i","t","c","o","i","n">>) \/ contains(t, <<"b","t","c">>)
            THEN "BTC"
            ELSE IF contains(t, <<"c","a","r","d","a","n","o">>) \/ contains(t, <<"a","d","a">>)
            THEN "ADA"
            ELSE IF contains(t, <<"e","t","h","e","r","e","u","m">>) \/ contains(t, <<"e","t","h">>)
            THEN "ETH"
            ELSE IF \/ contains(t, <<"s","o","l","a","n","a">>)
                    \/ contains(t, <<"s","o","l"," ">>)
                    \/ endswith(t, <<" ","s","o","l">>)
            THEN "SOL"
            ELSE IF contains(t, <<"c","h","a","i","n","l","i","n","k">>) \/ contains(t, <<"l","i","n","k">>)
            THEN "LINK"
            ELSE IF contains(t, <<"a","v","a","l","a","n","c","h","e">>) \/ contains(t, <<"a","v","a","x">>)
            THEN "AVAX"
            ELSE ""
    IN  asset(joined(title, summary))

\* KW_BUY / KW_SELL (main.py 93-95)
KW_BUY ==
    << <<"e","t","f">>, <<"l","i","s","t","i","n","g">>, <<"l","i","s","t","e","d">>,
       <<"p","a","r","t","n","e","r","s","h","i","p">>,
       <<"p","a","r","t","e","n","a","r","i","a","t">>,
       <<"i","n","t","e","g","r","a","t","i","o","n">>,
       <<"u","p","g","r","a","d","e">>, <<"h","a","r","d"," ","f","o","r","k">>,
       <<"m","a","i","n","n","e","t">>, <<"t","e","s","t","n","e","t">>,
       <<"a","d","o","p","t","i","o","n">>,
       <<"i","n","s","t","i","t","u","t","i","o","n","a","l">>,
       <<"s","c","a","l","a","b","i","l","i","t","y">>, <<"r","o","a","d","m","a","p">>,
       <<"r","e","g","u","l","a","t","i","o","n">>, <<"a","p","p","r","o","v","a","l">> >>

KW_SELL ==
    << <<"h","a","c","k">>, <<"e","x","p","l","o","i","t">>,
       <<"s","e","c","u","r","i","t","y"," ","b","r","e","a","c","h">>,
       <<"b","r","e","a","c","h">>, <<"l","a","w","s","u","i","t">>, <<"b","a","n">>,
       <<"d","e","l","i","s","t">>, <<"d","e","l","i","s","t","i","n","g">>,
       <<"h","a","l","t","e","d"," ","w","i","t","h","d","r","a","w","a","l","s">> >>

\* A classifier that looks for the positive keywords first.
classify_action_buy_first(title, summary) ==
    LET verdict(txt) ==
            IF \E i \in 1..Len(KW_BUY) : contains(txt, KW_BUY[i])
            THEN "Acheter +"
            ELSE IF \E i \in 1..Len(KW_SELL) : contains(txt, KW_SELL[i])
            THEN "Prendre des profits / Reduire"
            ELSE "Hold"
    IN  verdict(joined(title, summary))

\* classify_action (main.py 170-176): the verdict (first component of the pair).
classify_action(title, summary) ==
    LET verdict(txt) ==
            IF \E i \in 1..Len(KW_SELL) : contains(txt, KW_SELL[i])
            THEN "Prendre des profits / Reduire"
            ELSE IF \E i \in 1..Len(KW_BUY) : contains(txt, KW_BUY[i])
            THEN "Acheter +"
            ELSE "Hold"
    IN  verdict(joined(title, summary))


(************************** inputs of the model ***************************)

\* Longest entry list a feed returns in the model (the code reads entries[:10]).
MaxFeedLen == 2

\* Longest result list CryptoPanic returns in the model (the code reads data[:10]).
MaxCpLen == 1

\* entries[:10] and data[:10] (main.py 186, 236)
ENTRY_CAP == 10

Take(s, n) == SubSeq(s, 1, IF Len(s) < n THEN Len(s) ELSE n)

SeqsUpTo(S, n) == UNION {[1..k -> S] : k \in 0..n}

\* The words the texts given to classify_action alone are made of, in the
\* case they are written in.  "HACK" is written with the Kelvin sign U+212A
\* for its K, which str.lower() turns into "k".
WORDS == {"Hack", "HACK", "listing", "Delisting", "ETF", "Urban", "price"}

WORD_CHARS ==
    [w \in WORDS |->
        CASE w = "Hack"      -> <<"H","a","c","k">>
          [] w = "HACK"      -> <<"H","A","C","U+212A">>
          [] w = "listing"   -> <<"l","i","s","t","i","n","g">>
          [] w = "Delisting" -> <<"D","e","l","i","s","t","i","n","g">>
          [] w = "ETF"       -> <<"E","T","F">>
          [] w = "Urban"     -> <<"U","r","b","a","n">>
          [] w = "price"     -> <<"p","r","i","c","e">>]

\* Most words of a title and of a summary.
MaxTitleWords == 2

MaxSummaryWords == 1

\* The text of a sequence of words: " ".join(ws)
RECURSIVE spaced(_)
spaced(ws) ==
    IF ws = <<>> THEN <<>>
    ELSE IF Len(ws) = 1 THEN WORD_CHARS[ws[1]]
    ELSE WORD_CHARS[ws[1]] \o <<" ">> \o spaced(Tail(ws))

\* The title/summary pairs, not yet classified.
TEXT_PAIRS ==
    [title   : SeqsUpTo(WORDS, MaxTitleWords),
     summary : SeqsUpTo(WORDS, MaxSummaryWords),
     action  : {""}]

unclassified == [title |-> <<>>, summary |-> <<>>, action |-> ""]

\* Feed entries: e.get(f) of a missing or empty field is "" here (both falsy).
ENTRIES ==
    { [id |-> "a", link |-> "http://x/a", title |-> "BTC ETF",        summary |-> ""],
      [id |-> "",  link |-> "b",          title |-> "Cardano  hack ", summary |-> "lawsuit"],
      [id |-> "",  link |-> "",           title |-> "",               summary |-> ""] }

\* What feedparser.parse(url) does: raises (ok = FALSE) or returns entries.
FEED_RESULTS ==
    {[ok |-> FALSE, entries |-> <<>>]} \cup
    {[ok |-> TRUE, entries |-> es] : es \in SeqsUpTo(ENTRIES, MaxFeedLen)}

\* CryptoPanic: `mapping` (main.py 225) restricted to one symbol.
CP_SYMBOLS == <<"BTC">>

\* Items of the CryptoPanic answer; an item may come without "id".
CP_ITEMS ==
    { [id |-> 7,    title |-> "BTC ETF", url |-> "http://cp/7"],
      [id |-> None, title |-> "lawsuit", url |-> ""] }

\* The request fails / is not 200 (ok = FALSE), or returns "results".
CP_RESULTS ==
    {[ok |-> FALSE, data |-> <<>>]} \cup
    {[ok |-> TRUE, data |-> d] : d \in SeqsUpTo(CP_ITEMS, MaxCpLen)}

\* One asset's entry of the price answer; a missing currency is None.
BTC_QUOTES ==
    { [usd |-> u, eur |-> e] : u \in {None, 103000, 117000, 120000},
                               e \in {None, 97000, 100000} }

AVAX_QUOTES == { [usd |-> 23, eur |-> 20] }

\* get_prices returns r.json() as it is (main.py 151-152): an answer that is
\* JSON but no object, a list or null, reaches the stages.  The model writes
\* such an answer as a map whose only key names its kind; the key is no
\* CoinGecko id, so that `cg in prices` is false of it as it is of a list.
json_list == [k \in {"<list>"} |-> [usd |-> None, eur |-> None]]

json_null == [k \in {"<null>"} |-> [usd |-> None, eur |-> None]]

NOT_OBJECTS == {json_list, json_null}

\* get_prices() answers (main.py 146-155): {} on failure, else what the API
\* sent: a map from CoinGecko id to quote in which any asset may be missing,
\* or JSON that is no object.
OBJECT_SNAPSHOTS ==
    LET btc  == {[k \in {} |-> [usd |-> None, eur |-> None]]} \cup
                {[k \in {"bitcoin"} |-> q] : q \in BTC_QUOTES}
        avax == {[k \in {} |-> [usd |-> None, eur |-> None]]} \cup
                {[k \in {"avalanche-2"} |-> q] : q \in AVAX_QUOTES}
    IN  { [k \in (DOMAIN b) \cup (DOMAIN a) |->
              IF k \in DOMAIN b THEN b[k] ELSE a[k]] : b \in btc, a \in avax }

SNAPSHOTS == OBJECT_SNAPSHOTS \cup NOT_OBJECTS

\* Smaller sets of the same answers, for the specifications that vary
\* something else: no answer, a full one, and one that lacks BTC's eur.
FEW_SNAPSHOTS ==
    { s \in SNAPSHOTS :
        \/ s = [k \in {} |-> [usd |-> None, eur |-> None]]
        \/ /\ DOMAIN s = {"bitcoin", "avalanche-2"}
           /\ s["bitcoin"] \in { [usd |-> 117000, eur |-> 97000],
                                 [usd |-> 117000, eur |-> None] } }

\* The full price answer alone, and the answers that carry BTC.
FULL_SNAPSHOTS ==
    { s \in FEW_SNAPSHOTS :
        /\ DOMAIN s = {"bitcoin", "avalanche-2"}
        /\ s["bitcoin"].eur # None }

PRICED_SNAPSHOTS == { s \in FEW_SNAPSHOTS : DOMAIN s # {} }

\* What the handlers of the commands get when both threads run: no prices
\* or all of them, a feed that fails or one that returns an entry.
CMD_SNAPSHOTS == {[k \in {} |-> [usd |-> None, eur |-> None]]} \cup FULL_SNAPSHOTS

\* What a handler's get_prices() returns in the model: no prices, all of
\* them, or an answer that is not an object.
COMMAND_SNAPSHOTS == CMD_SNAPSHOTS \cup NOT_OBJECTS

SHORT_FEED_RESULTS == { r \in FEED_RESULTS : Len(r.entries) <= 1 }

CMD_FEED_RESULTS ==
    { r \in SHORT_FEED_RESULTS :
        ~r.ok \/ (Len(r.entries) = 1 /\ r.entries[1].id # "") }

FEW_FEED_RESULTS == { r \in FEED_RESULTS : Len(r.entries) <= 1 /\ \A n \in 1..Len(r.entries) : r.entries[n].id # "" }

\* CryptoPanic answers whose items all carry an id, and the failure alone.
ID_CP_RESULTS ==
    { r \in CP_RESULTS : \A n \in 1..Len(r.data) : r.data[n].id # None }

NO_CP_RESULTS == { r \in CP_RESULTS : ~r.ok }

\* Values of the environment variables CHAT_ID and CRYPTOPANIC_TOKEN
\* (main.py 10-11); "" is unset.
CHAT_IDS == {"", "1001"}
CP_TOKENS == {"", "tok"}


(****************************** helpers ***********************************)

\* A JSON file: absent, holding a parsed document (ok), or holding text
\* json.load rejects (corrupt: empty or cut short).  `empty` fills the data
\* field of a file that holds no document.
absent_file(empty) == [st |-> "absent", data |-> empty]

corrupt_file(empty) == [st |-> "corrupt", data |-> empty]

\* A load that takes whatever a file that does not parse still holds.
load_json_lenient(file, default) ==
    IF file.st = "absent" THEN default ELSE file.data

\* load_json (main.py 106-113): the document, or `default` when the file is
\* absent or does not parse.
load_json(file, default) == IF file.st = "ok" THEN file.data ELSE default

\* save_json (main.py 115-117) when open() and json.dump() succeed: the whole
\* document replaces the file.
save_json(data) == [st |-> "ok", data |-> data]

\* What a save_json that does not complete leaves on disk: the old file when
\* open() fails, else a file truncated by open(path, "w") and possibly
\* written in part, which json.load rejects.
torn_files(file, empty) == {file, corrupt_file(empty)}

\* A broadcast that falls back on a chat of its own when none is given.
broadcast_to_owner(chat_default, fallback_chat_id) ==
    IF chat_default # "" THEN chat_default
    ELSE IF fallback_chat_id # "" THEN fallback_chat_id ELSE "42"

\* broadcast (main.py 140-144): the chat the text is sent to, "" when neither
\* CHAT_ID_DEFAULT nor the fallback is set and nothing is sent.
broadcast(chat_default, fallback_chat_id) ==
    IF chat_default # "" THEN chat_default ELSE fallback_chat_id

\* Whether prices.get exists: a list and None have no such attribute
\* (AttributeError, main.py 205 and 246).
has_get(snapshot) == DOMAIN snapshot \cap {"<list>", "<null>"} = {}

\* Whether `cg in prices` can be evaluated: None is not iterable
\* (TypeError, main.py 265 and 306).
has_in(snapshot) == "<null>" \notin DOMAIN snapshot

\* prices.get(cg_id, {}).get(f)
px_get(snapshot, cg_id, f) ==
    IF cg_id \in DOMAIN snapshot THEN snapshot[cg_id][f] ELSE None

\* Python truth of a price: None and 0 are falsy.
truthy(x) == x # None /\ x # 0

\* price_line (main.py 211, 250): the two prices, or "Prix: n/a".
price_line(eur, usd) ==
    IF truthy(eur) /\ truthy(usd)
    THEN [na |-> FALSE, eur |-> eur, usd |-> usd]
    ELSE [na |-> TRUE, eur |-> None, usd |-> None]

(****************************** scan_feeds ********************************)

\* uid = e.get("id") or e.get("link") or e.get("title")   (main.py 187)
entry_uid(e) ==
    IF e.id # "" THEN e.id ELSE IF e.link # "" THEN e.link ELSE e.title

\* key = f"{group}:{uid}"   (main.py 190)
feed_key(group, uid) == group \o ":" \o uid

\* What the code computes from the two texts of an entry alone, once they are
\* normalised (the detect_asset of main.py 197 and the classify_action of 209).
texts_of(title, summary) ==
    [detected |-> detect_asset(title, summary),
     action   |-> classify_action(title, summary)]

\* For every entry of the model, texts_of its normalised title and summary
\* (main.py 194-196), computed once.
entry_texts ==
    [e \in ENTRIES |-> texts_of(norm(CHARS[e.title]), norm(CHARS[e.summary]))]

\* target and cg_id of an entry (main.py 197, 202); "" stands for None.
entry_target(group, e) ==
    IF group \notin GENERIC_GROUPS THEN group ELSE entry_texts[e].detected

entry_cg_id(group, e) ==
    LET cg_id(target) == IF target # "" THEN CG_IDS_get(target) ELSE ""
    IN  cg_id(entry_target(group, e))

\* The notification of one unseen entry (main.py 194-219).
feed_msg(group, e, snapshot, chat_default) ==
    LET msg(target, cg_id, action) ==
            LET eur == IF cg_id # "" THEN px_get(snapshot, cg_id, "eur") ELSE None
                usd == IF cg_id # "" THEN px_get(snapshot, cg_id, "usd") ELSE None
            IN  [key    |-> feed_key(group, entry_uid(e)),
                 label  |-> IF target # "" THEN target ELSE group,
                 price  |-> price_line(eur, usd),
                 action |-> action,
                 to     |-> broadcast(chat_default, "")]
    IN  msg(entry_target(group, e), entry_cg_id(group, e), entry_texts[e].action)

\* A loop body without its second `continue`: seen keys are not skipped.
feed_entry_is_new_undeduped(group, e, seen0) == entry_uid(e) # ""

\* Whether the loop body goes past its two `continue` (main.py 188-192).
feed_entry_is_new(group, e, seen0) ==
    entry_uid(e) # "" /\ feed_key(group, entry_uid(e)) \notin seen0

\* The loop over one feed's entries (main.py 186-220): the dedup set after it,
\* the notifications it broadcast, in order, and whether the AttributeError
\* of prices.get (main.py 205) left the loop at an unseen entry with a cg_id.
RECURSIVE scan_entries(_, _, _, _, _)
scan_entries(group, es, seen0, snapshot, chat_default) ==
    IF es = <<>> THEN [seen |-> seen0, msgs |-> <<>>, raised |-> FALSE]
    ELSE IF ~feed_entry_is_new(group, Head(es), seen0)
    THEN scan_entries(group, Tail(es), seen0, snapshot, chat_default)
    ELSE IF entry_cg_id(group, Head(es)) # "" /\ ~has_get(snapshot)
    THEN [seen |-> seen0, msgs |-> <<>>, raised |-> TRUE]
    ELSE LET key  == feed_key(group, entry_uid(Head(es)))
             rest == scan_entries(group, Tail(es), seen0 \cup {key},
                                  snapshot, chat_default)
         IN  [seen |-> rest.seen,
              msgs |-> <<feed_msg(group, Head(es), snapshot, chat_default)>>
                       \o rest.msgs,
              raised |-> rest.raised]

\* A scan that marks the keys seen and broadcasts nothing.
scan_url_silent(group, r, seen0, snapshot, chat_default) ==
    IF ~r.ok THEN [seen |-> seen0, msgs |-> <<>>, raised |-> FALSE]
    ELSE [seen |-> scan_entries(group, Take(r.entries, ENTRY_CAP), seen0,
                                snapshot, chat_default).seen,
          msgs |-> <<>>,
          raised |-> scan_entries(group, Take(r.entries, ENTRY_CAP), seen0,
                                  snapshot, chat_default).raised]

\* One iteration of `for url in urls` (main.py 181-220) for a feed answer r.
scan_url(group, r, seen0, snapshot, chat_default) ==
    IF ~r.ok THEN [seen |-> seen0, msgs |-> <<>>, raised |-> FALSE]
    ELSE scan_entries(group, Take(r.entries, ENTRY_CAP), seen0, snapshot,
                      chat_default)

(**************************** scan_cryptopanic ****************************)

\* f"{uid}" of item.get("id"): an integer, or None
fmt_id(id) == IF id = None THEN "None" ELSE ToString(id)

\* key = f"cp:{symbol}:{uid}"   (main.py 238)
cp_key(symbol, id) == "cp:" \o symbol \o ":" \o fmt_id(id)

\* For every item of the model, classify_action(norm(title), "") (main.py
\* 241, 249), computed once.
item_actions ==
    [i \in CP_ITEMS |-> classify_action(norm(CHARS[i.title]), <<>>)]

\* The notification of one unseen item (main.py 241-257).
cp_msg(symbol, item, snapshot, chat_default) ==
    LET cg_id == CG_IDS_get(symbol)
        eur   == IF cg_id # "" THEN px_get(snapshot, cg_id, "eur") ELSE None
        usd   == IF cg_id # "" THEN px_get(snapshot, cg_id, "usd") ELSE None
    IN  [key    |-> cp_key(symbol, item.id),
         label  |-> symbol,
         price  |-> price_line(eur, usd),
         action |-> item_actions[item],
         to     |-> broadcast(chat_default, "")]

\* The loop over one answer's items (main.py 236-258); raised: the
\* AttributeError of prices.get (main.py 246) left it at an unseen item.
RECURSIVE cp_items(_, _, _, _, _)
cp_items(symbol, items, seen0, snapshot, chat_default) ==
    IF items = <<>> THEN [seen |-> seen0, msgs |-> <<>>, raised |-> FALSE]
    ELSE IF cp_key(symbol, Head(items).id) \in seen0
    THEN cp_items(symbol, Tail(items), seen0, snapshot, chat_default)
    ELSE IF CG_IDS_get(symbol) # "" /\ ~has_get(snapshot)
    THEN [seen |-> seen0, msgs |-> <<>>, raised |-> TRUE]
    ELSE LET key  == cp_key(symbol, Head(items).id)
             rest == cp_items(symbol, Tail(items), seen0 \cup {key},
                              snapshot, chat_default)
         IN  [seen |-> rest.seen,
              msgs |-> <<cp_msg(symbol, Head(items), snapshot, chat_default)>>
                       \o rest.msgs,
              raised |-> rest.raised]

\* scan_cryptopanic (main.py 222-258); rs[i] is the answer for CP_SYMBOLS[i].
RECURSIVE cp_symbols(_, _, _, _, _)
cp_symbols(i, rs, seen0, snapshot, chat_default) ==
    IF i > Len(CP_SYMBOLS)
    THEN [seen |-> seen0, msgs |-> <<>>, raised |-> FALSE]
    ELSE LET here == IF ~rs[i].ok
                     THEN [seen |-> seen0, msgs |-> <<>>, raised |-> FALSE]
                     ELSE cp_items(CP_SYMBOLS[i], Take(rs[i].data, ENTRY_CAP),
                                   seen0, snapshot, chat_default)
             rest == cp_symbols(i + 1, rs, here.seen, snapshot, chat_default)
         IN  IF here.raised THEN here
             ELSE [seen |-> rest.seen, msgs |-> here.msgs \o rest.msgs,
                   raised |-> rest.raised]

scan_cryptopanic(cp_token, rs, seen0, snapshot, chat_default) ==
    IF cp_token = "" THEN [seen |-> seen0, msgs |-> <<>>, raised |-> FALSE]
    ELSE cp_symbols(1, rs, seen0, snapshot, chat_default)


(*************************** check_predictions ****************************)

\* The empty dict of target states.
no_targets == [k \in {} |-> [reached |-> FALSE, noted |-> FALSE]]

\* d[k] = v on a dict
dict_put(d, k, v) == [x \in (DOMAIN d) \cup {k} |-> IF x = k THEN v ELSE d[x]]

\* p.get('currency','USD').upper(), on the characters of the currency
upper_ccy(c) == upper(c)

abs(x) == IF x < 0 THEN -x ELSE x

\* The (asset, i, p) the two loops of check_predictions visit, in order
\* (main.py 263, 269); i counts from 0 as enumerate does.
RECURSIVE pred_list(_)
pred_list(a) ==
    IF a > Len(PRED_ASSETS) THEN <<>>
    ELSE [j \in 1..Len(PREDICTIONS[PRED_ASSETS[a]]) |->
             [asset |-> PRED_ASSETS[a], i |-> j - 1,
              p |-> PREDICTIONS[PRED_ASSETS[a]][j]]]
         \o pred_list(a + 1)

\* key = f"{asset}:{i}:{p.get('target')}:{p.get('currency','USD')}"  (main.py 270),
\* kept as the tuple of its four parts.
target_key(x) == <<x.asset, x.i, x.p.target, x.p.currency>>

TARGET_KEYS == {target_key(pred_list(1)[n]) : n \in 1..Len(pred_list(1))}

\* A lookup that ignores what the dict holds for the key.
target_state_forgetful(targets, key) == [reached |-> FALSE, noted |-> FALSE]

\* seen_targets.get(key, {"reached": False, "noted": False})
target_state(targets, key) ==
    IF key \in DOMAIN targets THEN targets[key]
    ELSE [reached |-> FALSE, noted |-> FALSE]

\* cur >= target and not state["reached"]   (main.py 279)
reaches(cur, target, state) == cur >= target /\ ~state.reached

\* abs(cur-target)/target <= 0.03 on integers
within_3_percent(cur, target) == 100 * abs(cur - target) <= 3 * target

\* The second test without its last conjunct `not state["reached"]`.
approaches_after_reached(cur, target, state) ==
    ~state.noted /\ target > 0 /\ within_3_percent(cur, target)

\* The second test (main.py 291), on the state the first branch left.
approaches(cur, target, state) ==
    ~state.noted /\ target > 0 /\ within_3_percent(cur, target) /\ ~state.reached

\* The body of `for i, p in enumerate(items)` (main.py 270-300) for one
\* target, behind the test of main.py 265: the dict after it, what it
\* broadcast, and whether `cg not in prices` raised TypeError.
check_target(x, targets, snapshot, chat_default) ==
  LET checked(ccy) ==
    LET cg     == CG_IDS_get(x.asset)
        key    == target_key(x)
        state  == target_state(targets, key)
        target == x.p.target
        cur    == IF ccy = <<"E","U","R">> THEN px_get(snapshot, cg, "eur")
                  ELSE px_get(snapshot, cg, "usd")
        hit    == reaches(cur, target, state)
        state1 == IF hit THEN [state EXCEPT !.reached = TRUE] ELSE state
        near   == approaches(cur, target, state1)
        state2 == IF near THEN [state1 EXCEPT !.noted = TRUE] ELSE state1
        to     == broadcast(chat_default, "")
    IN  IF cg # "" /\ ~has_in(snapshot)
        THEN [targets |-> targets, msgs |-> <<>>, raised |-> TRUE]
        ELSE IF cg = "" \/ cg \notin DOMAIN snapshot \/ cur = None
                \/ target = None
        THEN [targets |-> targets, msgs |-> <<>>, raised |-> FALSE]
        ELSE [raised |-> FALSE,
              targets |-> dict_put(targets, key, state2),
              msgs |-> (IF hit THEN <<[key |-> key, kind |-> "reached",
                                      cur |-> cur, to |-> to]>> ELSE <<>>)
                       \o
                       (IF near THEN <<[key |-> key, kind |-> "approaching",
                                       cur |-> cur, to |-> to]>> ELSE <<>>)]
  IN  checked(upper_ccy(x.p.currency))

\* The two loops of check_predictions (main.py 263-300) over the targets
\* n..last of pred_list (all of them: 1..Len(pred_list(1))).
RECURSIVE check_targets(_, _, _, _, _)
check_targets(n, last, targets, snapshot, chat_default) ==
    IF n > last THEN [targets |-> targets, msgs |-> <<>>, raised |-> FALSE]
    ELSE LET here == check_target(pred_list(1)[n], targets, snapshot, chat_default)
             rest == check_targets(n + 1, last, here.targets, snapshot, chat_default)
         IN  IF here.raised THEN here
             ELSE [targets |-> rest.targets, msgs |-> here.msgs \o rest.msgs,
                   raised |-> rest.raised]

(*************************** check_user_levels ****************************)

\* The levels of one family that fire, in list order, as ping texts: a
\* family fires at usd >= lvl when `rising`, at usd <= lvl otherwise.
level_hits(family, levels, rising, usd) ==
    LET fires(l) == IF rising THEN usd >= l ELSE usd <= l
        sel      == SelectSeq(levels, fires)
    IN  [n \in 1..Len(sel) |-> [family |-> family, level |-> <<sel[n]>>]]

min2(s) == IF s[1] <= s[2] THEN s[1] ELSE s[2]
max2(s) == IF s[1] >= s[2] THEN s[1] ELSE s[2]

\* The pings one asset's configuration asks for at price usd, in the order
\* of main.py 320-334.
asset_hits(cfg, usd) ==
    LET bz == cfg.buy_zone
    IN  level_hits("warn_up", cfg.warn_up, TRUE, usd)
        \o level_hits("break_even", cfg.break_even, TRUE, usd)
        \o level_hits("danger_down", cfg.danger_down, FALSE, usd)
        \o (IF Len(bz) = 2 /\ min2(bz) <= usd /\ usd <= max2(bz)
            THEN <<[family |-> "buy_zone", level |-> <<min2(bz), max2(bz)>>]>>
            ELSE <<>>)

\* ping (main.py 313-318) formats both prices with :.2f before it broadcasts:
\* formatting None raises TypeError.
ping_raises(eur, usd) == eur = None \/ usd = None

\* check_user_levels (main.py 303-334) from the a-th asset on: the pings
\* broadcast, and whether a TypeError left the function (`cg not in prices`
\* of a prices that is None, or ping formatting None).
RECURSIVE check_user_levels(_, _, _)
check_user_levels(a, snapshot, chat_default) ==
    IF a > Len(ALERT_ASSETS) THEN [msgs |-> <<>>, raised |-> FALSE]
    ELSE LET asset == ALERT_ASSETS[a]
             cg    == CG_IDS_get(asset)
             usd   == px_get(snapshot, cg, "usd")
             eur   == px_get(snapshot, cg, "eur")
             hits  == asset_hits(USER_ALERTS[asset], usd)
             rest  == check_user_levels(a + 1, snapshot, chat_default)
         IN  IF cg # "" /\ ~has_in(snapshot)
             THEN [msgs |-> <<>>, raised |-> TRUE]
             ELSE IF cg = "" \/ cg \notin DOMAIN snapshot \/ usd = None
             THEN rest
             ELSE IF hits # <<>> /\ ping_raises(eur, usd)
             THEN [msgs |-> <<>>, raised |-> TRUE]
             ELSE [msgs |-> [n \in 1..Len(hits) |->
                               [asset |-> asset, family |-> hits[n].family,
                                level |-> hits[n].level, eur |-> eur,
                                usd |-> usd,
                                to |-> broadcast(chat_default, "")]]
                            \o rest.msgs,
                   raised |-> rest.raised]


(******************************** state ***********************************)

VARIABLES
    CHAT_ID_DEFAULT, \* os.getenv("CHAT_ID"), read when the process starts
    CP_TOKEN,        \* os.getenv("CRYPTOPANIC_TOKEN")
    delivers,        \* whether every requests.post of send() gets through
                     \* now; when not, each one succeeds or raises on its own
    seenFile,        \* seen_items.json
    targetsFile,     \* seen_targets.json
    offsetFile,      \* last_update_id.json
    spc,             \* where the scheduler thread is
    fi,              \* scan_feeds: index in FEED_URLS of the next url
    seen,            \* scheduler_loop's dict `seen` (its keys)
    seen_targets,    \* scheduler_loop's dict `seen_targets`
    prices,          \* scheduler_loop's `prices`
    err,             \* the exception that ended the scheduler thread
    cpc,             \* where the command thread is
    offset,          \* commands_loop's `offset`
    cerr,            \* the exception that ended the command thread
    \* history, for stating properties only:
    startup_to,      \* chat the "DEMARRE" text went to ("-" before, "" dropped)
    loaded,          \* keys of `seen` as loaded when this run started
    loaded_targets,  \* `seen_targets` as loaded when this run started
    undelivered,     \* notifications whose send() failed, so far
    dropped,         \* notifications broadcast() had no chat for, so far
    newsCount,       \* per dedup key, news notifications broadcast so far
    offered,         \* dedup keys a feed or CryptoPanic has returned so far
    reoffered,       \* keys returned again in a run that loaded them
    skipped,         \* keys returned to a scan that ended (the process was
                     \* killed, or prices.get raised) before it looked at
                     \* them, and that no scan has looked at since
    targetCount,     \* per target, "reached"/"approaching" broadcasts so far
    newsOut,         \* news notifications of the current iteration
    targetOut,       \* target notifications of the current iteration
    levelOut,        \* level pings of the current iteration, in order
    stages,          \* stages the current iteration has completed, in order
    fetched,         \* snapshots the current iteration fetched, in order
    used,            \* snapshots the stages of the current iteration read
    lastScan,        \* the source the scan stage just asked, and whether it answered
    cmdShown,        \* dedup keys of the items the last /news listed
    replies,         \* replies of the last batch of commands, in order
    polled,          \* update ids of the last batch the loop went through
    access,          \* <<thread, object>>: the thread has read or written it
    crashes,         \* process crashes so far
    lost,            \* keys marked seen in memory when the process last crashed
    classified       \* the words of a title and a summary, and the verdict on them

env         == <<CHAT_ID_DEFAULT, CP_TOKEN, delivers>>
files       == <<seenFile, targetsFile, offsetFile>>
scheduler   == <<spc, fi, seen, seen_targets, prices, err>>
commands    == <<cpc, offset, cerr>>
run_hist    == <<startup_to, loaded, loaded_targets, undelivered, dropped>>
news_hist   == <<newsCount, offered, reoffered, skipped, newsOut>>
target_hist == <<targetCount, targetOut>>
iter_hist   == <<stages, fetched, used, lastScan>>
cmd_hist    == <<cmdShown, replies, polled>>
crash_hist  == <<crashes, lost>>
history     == <<run_hist, news_hist, target_hist, levelOut, iter_hist,
                 cmd_hist, crash_hist, classified>>
vars        == <<env, files, scheduler, commands, history, access>>

\* Every dedup key the inputs of the model can produce.
FEED_KEYS ==
    { feed_key(FEED_URLS[n].group, entry_uid(e)) :
        n \in 1..Len(FEED_URLS), e \in {x \in ENTRIES : entry_uid(x) # ""} }

CP_KEYS == { cp_key(CP_SYMBOLS[n], i.id) : n \in 1..Len(CP_SYMBOLS), i \in CP_ITEMS }

NEWS_KEYS == FEED_KEYS \cup CP_KEYS

Range(s) == {s[n] : n \in 1..Len(s)}

\* How many notifications of msgs carry key k.
count_key(msgs, k) == Cardinality({n \in 1..Len(msgs) : msgs[n].key = k})

count_kind(msgs, k, kind) ==
    Cardinality({n \in 1..Len(msgs) : msgs[n].key = k /\ msgs[n].kind = kind})

no_snapshot == [k \in {} |-> [usd |-> None, eur |-> None]]


\* No source asked yet in this stage.  Otherwise lastScan is the index in
\* FEED_URLS of the url scan_feeds just parsed (0 for CryptoPanic) and
\* whether the fetch answered (for CryptoPanic: for some symbol).
no_scan == [url |-> None, ok |-> TRUE]

\* What requests.post does for each of n notifications in turn (TRUE: it
\* gets through): all get through while the channel delivers, else each one
\* succeeds or raises on its own.
post_outcomes(n, up) ==
    IF up THEN {[i \in 1..n |-> TRUE]} ELSE [1..n -> BOOLEAN]

all_posted(ups) == \A n \in 1..Len(ups) : ups[n]

\* send (main.py 130-138): when requests.post raises, the exception is
\* caught and printed; nothing reaches the caller.  The notifications of
\* msgs that were handed to send() and whose post raised, ups[n] being what
\* the post of msgs[n] did:
send_fails(posted, to) == ~posted /\ to # ""

failed_news(msgs, ups) ==
    {msgs[n].key : n \in {x \in 1..Len(msgs) : send_fails(ups[x], msgs[x].to)}}

failed_targets(msgs, ups) ==
    {<<msgs[n].key, msgs[n].kind>> :
        n \in {x \in 1..Len(msgs) : send_fails(ups[x], msgs[x].to)}}

\* broadcast (main.py 141-144) with no chat: `if not chat_id: return`.
dropped_news(msgs) == {msgs[n].key : n \in {x \in 1..Len(msgs) : msgs[x].to = ""}}

dropped_targets(msgs) ==
    {<<msgs[n].key, msgs[n].kind>> : n \in {x \in 1..Len(msgs) : msgs[x].to = ""}}

\* The step of `thread` reads or writes the objects objs: a file, or a
\* local of scheduler_loop (seen, seen_targets, prices), of commands_loop
\* (offset) or of a command handler (snapshot, the dict its own get_prices()
\* returned).
touches(thread, objs) == access' = access \cup {<<thread, o>> : o \in objs}

\* First start on a machine without state files.
InitFiles(chats, tokens, seen_files, targets_files, offset_files) ==
    /\ CHAT_ID_DEFAULT \in chats
    /\ CP_TOKEN \in tokens
    /\ seenFile \in seen_files
    /\ targetsFile \in targets_files
    /\ offsetFile \in offset_files
    /\ spc = "start" /\ fi = 1 /\ seen = {} /\ seen_targets = no_targets
    /\ prices = no_snapshot /\ err = "none"
    /\ cpc = "start" /\ offset = None /\ cerr = "none"
    /\ delivers = TRUE
    /\ undelivered = [news |-> {}, targets |-> {}]
    /\ dropped = [news |-> {}, targets |-> {}]
    /\ startup_to = "-" /\ loaded = {} /\ loaded_targets = no_targets
    /\ newsOut = {} /\ targetOut = {} /\ levelOut = <<>>
    /\ stages = <<>> /\ fetched = <<>> /\ used = {} /\ cmdShown = {}
    /\ lastScan = no_scan
    /\ replies = <<>> /\ polled = <<>> /\ lost = {} /\ access = {}
    /\ newsCount = [k \in NEWS_KEYS |-> 0]
    /\ offered = {}
    /\ reoffered = {}
    /\ skipped = {}
    /\ targetCount = [k \in TARGET_KEYS |-> [reached |-> 0, approaching |-> 0]]
    /\ crashes = 0

\* The first start of the program: no file exists yet.
InitWith(chats, tokens) ==
    /\ InitFiles(chats, tokens, {absent_file({})}, {absent_file(no_targets)},
                 {absent_file(None)})
    /\ classified = unclassified

\* What a start may find on disk: no file, a file cut short by an earlier
\* failed write (data is what a reader ignoring the cut would take from
\* it), or a whole document.
A_SEEN == {feed_key(FEED_URLS[1].group, "a")}

A_TARGETS ==
    LET k == CHOOSE x \in TARGET_KEYS : TRUE
    IN  dict_put(no_targets, k, [reached |-> TRUE, noted |-> TRUE])

SEEN_FILES ==
    {absent_file({}), [st |-> "corrupt", data |-> A_SEEN], save_json(A_SEEN)}

TARGETS_FILES ==
    {absent_file(no_targets), [st |-> "corrupt", data |-> A_TARGETS],
     save_json(A_TARGETS)}

OFFSET_FILES ==
    {absent_file(None), [st |-> "corrupt", data |-> 2], save_json(2)}

(************************** the scheduler thread **************************)

\* scheduler_loop, main.py 338-340: load both dicts, announce the start.
Startup ==
    /\ spc = "start"
    /\ touches("scheduler", {"seenFile", "targetsFile", "seen", "seen_targets"})
    /\ seen' = load_json(seenFile, {})
    /\ seen_targets' = load_json(targetsFile, no_targets)
    /\ loaded' = load_json(seenFile, {})
    /\ loaded_targets' = load_json(targetsFile, no_targets)
    /\ startup_to' = broadcast(CHAT_ID_DEFAULT, "")
    /\ UNCHANGED <<undelivered, dropped>>
    /\ spc' = "get_prices"
    /\ UNCHANGED <<env, files, commands, fi, prices, err>>
    /\ UNCHANGED <<news_hist, target_hist, levelOut, iter_hist, cmd_hist,
                   crash_hist, classified>>

\* main.py 343: prices = get_prices(); a new iteration begins.
GetPrices(snapshots) ==
    /\ spc = "get_prices"
    /\ touches("scheduler", {"prices"})
    /\ \E s \in snapshots :
         /\ prices' = s
         /\ fetched' = <<s>>
    /\ spc' = "scan_feeds"
    /\ fi' = 1
    /\ stages' = <<"get_prices">>
    /\ lastScan' = no_scan
    /\ used' = {}
    /\ newsOut' = {}
    /\ targetOut' = {}
    /\ levelOut' = <<>>
    /\ UNCHANGED <<env, files, commands, seen, seen_targets, err>>
    /\ UNCHANGED <<run_hist, newsCount, offered, reoffered, skipped, targetCount,
                   cmd_hist, crash_hist, classified>>

\* Keys of the entries a feed answer offers to the loop.
offered_keys(group, r) ==
    IF ~r.ok THEN {}
    ELSE { feed_key(group, entry_uid(e)) :
             e \in {x \in Range(Take(r.entries, ENTRY_CAP)) : entry_uid(x) # ""} }

\* A scan that marks the keys only when the channel delivered.
ScanFeedsRetrying(feed_results) ==
    /\ spc = "scan_feeds"
    /\ touches("scheduler", {"seen", "prices"})
    /\ \E r \in feed_results :
         LET group == FEED_URLS[fi].group
             res   == scan_url(group, r, seen, prices, CHAT_ID_DEFAULT)
             keys  == offered_keys(group, r)
         IN  /\ lastScan' = [url |-> fi, ok |-> r.ok]
             /\ newsOut' = newsOut \cup Range(res.msgs)
             /\ newsCount' = [k \in NEWS_KEYS |->
                                newsCount[k] + count_key(res.msgs, k)]
             /\ offered' = offered \cup keys
             /\ reoffered' = reoffered \cup (keys \cap loaded)
             /\ skipped' = (skipped \cup keys) \ res.seen
             /\ \E ups \in post_outcomes(Len(res.msgs), delivers) :
                  /\ seen' = IF all_posted(ups) THEN res.seen ELSE seen
                  /\ undelivered' =
                       [undelivered EXCEPT
                          !.news = @ \cup failed_news(res.msgs, ups)]
             /\ dropped' =
                  [dropped EXCEPT
                     !.news = @ \cup dropped_news(res.msgs)]
             /\ IF res.raised
                THEN /\ spc' = "dead" /\ err' = "AttributeError"
                     /\ fi' = fi /\ stages' = stages
                ELSE /\ err' = err
                     /\ IF fi < Len(FEED_URLS)
                        THEN fi' = fi + 1 /\ spc' = spc /\ stages' = stages
                        ELSE fi' = 1 /\ spc' = "scan_cryptopanic"
                             /\ stages' = Append(stages, "scan_feeds")
    /\ used' = used \cup {prices}
    /\ UNCHANGED <<env, files, commands, seen_targets, prices>>
    /\ UNCHANGED <<startup_to, loaded, loaded_targets, target_hist, levelOut, fetched,
                   cmd_hist, crash_hist, classified>>

\* A scan whose `except` leaves scan_feeds instead of going to the next url.
ScanFeedsAborting(feed_results) ==
    /\ spc = "scan_feeds"
    /\ touches("scheduler", {"seen", "prices"})
    /\ \E r \in feed_results :
         LET group == FEED_URLS[fi].group
             res   == scan_url(group, r, seen, prices, CHAT_ID_DEFAULT)
             keys  == offered_keys(group, r)
         IN  /\ lastScan' = [url |-> fi, ok |-> r.ok]
             /\ seen' = res.seen
             /\ newsOut' = newsOut \cup Range(res.msgs)
             /\ newsCount' = [k \in NEWS_KEYS |->
                                newsCount[k] + count_key(res.msgs, k)]
             /\ offered' = offered \cup keys
             /\ reoffered' = reoffered \cup (keys \cap loaded)
             /\ skipped' = (skipped \cup keys) \ res.seen
             /\ \E ups \in post_outcomes(Len(res.msgs), delivers) :
                  undelivered' =
                    [undelivered EXCEPT
                       !.news = @ \cup failed_news(res.msgs, ups)]
             /\ dropped' =
                  [dropped EXCEPT
                     !.news = @ \cup dropped_news(res.msgs)]
             /\ IF res.raised
                THEN /\ spc' = "dead" /\ err' = "AttributeError"
                     /\ fi' = fi /\ stages' = stages
                ELSE /\ err' = err
                     /\ IF fi < Len(FEED_URLS) /\ lastScan'.ok
                        THEN fi' = fi + 1 /\ spc' = spc /\ stages' = stages
                        ELSE fi' = 1 /\ spc' = "scan_cryptopanic"
                             /\ stages' = Append(stages, "scan_feeds")
    /\ used' = used \cup {prices}
    /\ UNCHANGED <<env, files, commands, seen_targets, prices>>
    /\ UNCHANGED <<startup_to, loaded, loaded_targets, target_hist, levelOut, fetched,
                   cmd_hist, crash_hist, classified>>

\* main.py 344, one url of scan_feeds: fetch it and go through its entries.
ScanFeeds(feed_results) ==
    /\ spc = "scan_feeds"
    /\ touches("scheduler", {"seen", "prices"})
    /\ \E r \in feed_results :
         LET group == FEED_URLS[fi].group
             res   == scan_url(group, r, seen, prices, CHAT_ID_DEFAULT)
             keys  == offered_keys(group, r)
         IN  /\ lastScan' = [url |-> fi, ok |-> r.ok]
             /\ seen' = res.seen
             /\ newsOut' = newsOut \cup Range(res.msgs)
             /\ newsCount' = [k \in NEWS_KEYS |->
                                newsCount[k] + count_key(res.msgs, k)]
             /\ offered' = offered \cup keys
             /\ reoffered' = reoffered \cup (keys \cap loaded)
             /\ skipped' = (skipped \cup keys) \ res.seen
             /\ \E ups \in post_outcomes(Len(res.msgs), delivers) :
                  undelivered' =
                    [undelivered EXCEPT
                       !.news = @ \cup failed_news(res.msgs, ups)]
             /\ dropped' =
                  [dropped EXCEPT
                     !.news = @ \cup dropped_news(res.msgs)]
             /\ IF res.raised
                THEN /\ spc' = "dead" /\ err' = "AttributeError"
                     /\ fi' = fi /\ stages' = stages
                ELSE /\ err' = err
                     /\ IF fi < Len(FEED_URLS)
                        THEN fi' = fi + 1 /\ spc' = spc /\ stages' = stages
                        ELSE fi' = 1 /\ spc' = "scan_cryptopanic"
                             /\ stages' = Append(stages, "scan_feeds")
    /\ used' = used \cup {prices}
    /\ UNCHANGED <<env, files, commands, seen_targets, prices>>
    /\ UNCHANGED <<startup_to, loaded, loaded_targets, target_hist, levelOut, fetched,
                   cmd_hist, crash_hist, classified>>

\* Keys of the items the CryptoPanic answers offer to the loop.
cp_offered_keys(cp_token, rs) ==
    IF cp_token = "" THEN {}
    ELSE UNION { { cp_key(CP_SYMBOLS[n], i.id) :
                     i \in Range(Take(rs[n].data, ENTRY_CAP)) } :
                 n \in {x \in 1..Len(CP_SYMBOLS) : rs[x].ok} }

\* main.py 345: scan_cryptopanic(seen, prices)
ScanCryptopanic(cp_results) ==
    /\ spc = "scan_cryptopanic"
    /\ touches("scheduler", IF CP_TOKEN # "" THEN {"seen", "prices"} ELSE {})
    /\ \E rs \in [1..Len(CP_SYMBOLS) -> cp_results] :
         LET res  == scan_cryptopanic(CP_TOKEN, rs, seen, prices, CHAT_ID_DEFAULT)
             keys == cp_offered_keys(CP_TOKEN, rs)
         IN  /\ lastScan' = IF CP_TOKEN = "" THEN no_scan
                            ELSE [url |-> 0,
                                  ok  |-> \E n \in 1..Len(CP_SYMBOLS) : rs[n].ok]
             /\ seen' = res.seen
             /\ newsOut' = newsOut \cup Range(res.msgs)
             /\ newsCount' = [k \in NEWS_KEYS |->
                                newsCount[k] + count_key(res.msgs, k)]
             /\ offered' = offered \cup keys
             /\ reoffered' = reoffered \cup (keys \cap loaded)
             /\ skipped' = (skipped \cup keys) \ res.seen
             /\ \E ups \in post_outcomes(Len(res.msgs), delivers) :
                  undelivered' =
                    [undelivered EXCEPT
                       !.news = @ \cup failed_news(res.msgs, ups)]
             /\ dropped' =
                  [dropped EXCEPT
                     !.news = @ \cup dropped_news(res.msgs)]
             /\ IF res.raised
                THEN spc' = "dead" /\ err' = "AttributeError"
                     /\ stages' = stages
                ELSE spc' = "check_predictions" /\ err' = err
                     /\ stages' = Append(stages, "scan_cryptopanic")
    /\ used' = used \cup {prices}
    /\ UNCHANGED <<env, files, commands, fi, seen_targets, prices>>
    /\ UNCHANGED <<startup_to, loaded, loaded_targets, target_hist, levelOut, fetched,
                   cmd_hist, crash_hist, classified>>

\* targetCount after the broadcasts msgs.
counted(count, msgs) ==
    [k \in TARGET_KEYS |->
        [reached     |-> count[k].reached + count_kind(msgs, k, "reached"),
         approaching |-> count[k].approaching + count_kind(msgs, k, "approaching")]]

\* main.py 346: check_predictions(prices, seen_targets), which ends by
\* saving seen_targets (main.py 301).
CheckPredictions ==
    /\ spc = "check_predictions"
    /\ touches("scheduler", {"prices", "seen_targets", "targetsFile"})
    /\ LET res == check_targets(1, Len(pred_list(1)), seen_targets, prices,
                                CHAT_ID_DEFAULT)
       IN  /\ seen_targets' = res.targets
           /\ targetOut' = Range(res.msgs)
           /\ targetCount' = counted(targetCount, res.msgs)
           /\ \E ups \in post_outcomes(Len(res.msgs), delivers) :
                undelivered' =
                  [undelivered EXCEPT
                     !.targets = @ \cup failed_targets(res.msgs, ups)]
           /\ dropped' =
                [dropped EXCEPT
                   !.targets = @ \cup dropped_targets(res.msgs)]
           /\ IF res.raised
              THEN /\ spc' = "dead" /\ err' = "TypeError"
                   /\ targetsFile' = targetsFile /\ stages' = stages
              ELSE /\ spc' = "check_user_levels" /\ err' = err
                   /\ targetsFile' = save_json(res.targets)
                   /\ stages' = stages \o
                                <<"check_predictions", "save_seen_targets">>
    /\ used' = used \cup {prices}
    /\ lastScan' = no_scan
    /\ UNCHANGED <<env, seenFile, offsetFile, commands, fi, seen, prices>>
    /\ UNCHANGED <<startup_to, loaded, loaded_targets, news_hist, levelOut, fetched, cmd_hist,
                   crash_hist, classified>>

\* main.py 347: check_user_levels(prices); a TypeError raised by ping is
\* caught nowhere and ends the thread.
CheckUserLevels ==
    /\ spc = "check_user_levels"
    /\ UNCHANGED lastScan
    /\ touches("scheduler", {"prices"})
    /\ LET res == check_user_levels(1, prices, CHAT_ID_DEFAULT)
       IN  /\ levelOut' = res.msgs
           /\ IF res.raised
              THEN spc' = "dead" /\ err' = "TypeError" /\ stages' = stages
              ELSE spc' = "save_seen" /\ err' = err
                   /\ stages' = Append(stages, "check_user_levels")
    /\ used' = used \cup {prices}
    /\ UNCHANGED <<env, files, commands, fi, seen, seen_targets, prices>>
    /\ UNCHANGED <<run_hist, news_hist, target_hist, fetched, cmd_hist,
                   crash_hist, classified>>

\* main.py 348: save_json(SEEN_ITEMS_FILE, seen)
SaveSeen ==
    /\ spc = "save_seen"
    /\ touches("scheduler", {"seen", "seenFile"})
    /\ seenFile' = save_json(seen)
    /\ spc' = "sleep"
    /\ stages' = Append(stages, "save_seen")
    /\ UNCHANGED lastScan
    /\ UNCHANGED <<env, targetsFile, offsetFile, commands, fi, seen,
                   seen_targets, prices, err>>
    /\ UNCHANGED <<run_hist, news_hist, target_hist, levelOut, fetched, used,
                   cmd_hist, crash_hist, classified>>

\* main.py 349: time.sleep(POLL_SECONDS), then the next iteration.
Sleep ==
    /\ spc = "sleep"
    /\ UNCHANGED access
    /\ spc' = "get_prices"
    /\ stages' = Append(stages, "sleep")
    /\ UNCHANGED lastScan
    /\ UNCHANGED <<env, files, commands, fi, seen, seen_targets, prices, err>>
    /\ UNCHANGED <<run_hist, news_hist, target_hist, levelOut, fetched, used,
                   cmd_hist, crash_hist, classified>>

Scheduler(snapshots, feed_results, cp_results) ==
    \/ Startup
    \/ GetPrices(snapshots)
    \/ ScanFeeds(feed_results)
    \/ ScanCryptopanic(cp_results)
    \/ CheckPredictions
    \/ CheckUserLevels
    \/ SaveSeen
    \/ Sleep

(*************************** the command thread ***************************)

\* The texts users send in the model.
COMMAND_TEXTS ==
    {"/start", "/status", "/levels", "/news", " /News btc", "/news DOGE", "hello"}

\* Highest update_id of the model.
MaxUpdateId == 2

\* An update: its id, the chat id of its message (None when it has no
\* message or chat) and the text ("" when it has none).
UPDATES ==
    [update_id : 1..MaxUpdateId, chat_id : {None, 42}, text : COMMAND_TEXTS]

\* tg_get_updates (main.py 352-362): {} or {"ok": false} (ok = FALSE), or a
\* batch of updates.
tg_answers(batches) ==
    {[ok |-> FALSE, result |-> <<>>]} \cup
    {[ok |-> TRUE, result |-> b] : b \in batches}

\* The answers that carry no update or one update.
SINGLE_ANSWERS == tg_answers({<<>>} \cup {<<u>> : u \in UPDATES})

\* The answers that carry up to two updates, in either order of their ids.
PAIR_ANSWERS ==
    tg_answers({<<>>} \cup {<<u>> : u \in UPDATES}
               \cup {<<u, v>> : u \in UPDATES, v \in UPDATES})

\* limit_per_feed (main.py 377)
LIMIT_PER_FEED == 3

\* The branch handle_command takes for a text (main.py 404-437), computed
\* once per text: which reply, and the asset filter of /news ("" for none).
command_of ==
    [text \in COMMAND_TEXTS |->
        LET news(asset) ==
                LET known == {n \in 1..Len(ASSETS) : CHARS[ASSETS[n]] = asset}
                IN  IF known = {}
                    THEN [reply |-> "usage", asset |-> ""]
                    ELSE [reply |-> "news",
                          asset |-> ASSETS[CHOOSE n \in known : TRUE]]
            branch(t, parts) ==
                IF startswith(t, <<"/","s","t","a","r","t">>)
                THEN [reply |-> "start", asset |-> ""]
                ELSE IF startswith(t, <<"/","s","t","a","t","u","s">>)
                THEN [reply |-> "status", asset |-> ""]
                ELSE IF startswith(t, <<"/","l","e","v","e","l","s">>)
                THEN [reply |-> "levels", asset |-> ""]
                ELSE IF startswith(t, <<"/","n","e","w","s">>)
                THEN IF Len(parts) >= 2
                     THEN news(upper(parts[2]))
                     ELSE [reply |-> "news", asset |-> ""]
                ELSE [reply |-> "help", asset |-> ""]
        IN  branch(lower(rstrip(lstrip(CHARS[text]))), split(CHARS[text]))]

\* prices_snapshot_text (main.py 364-375): one line per asset.
prices_snapshot_text(snapshot) ==
    [n \in 1..Len(ASSETS) |->
        [asset |-> ASSETS[n],
         price |-> price_line(px_get(snapshot, CG_IDS[ASSETS[n]], "eur"),
                              px_get(snapshot, CG_IDS[ASSETS[n]], "usd"))]]

\* The lines latest_news_text adds for one feed (main.py 387-400).  The loop
\* reads entries[:limit_per_feed], so its `count >= limit` never cuts it short.
RECURSIVE news_lines(_, _, _)
news_lines(group, es, asset_filter) ==
    IF es = <<>> THEN <<>>
    ELSE LET e      == Head(es)
             target == IF group \notin GENERIC_GROUPS THEN group
                       ELSE entry_texts[e].detected
             label  == IF target # "" THEN target ELSE group
         IN  (IF asset_filter # "" /\ label # asset_filter THEN <<>>
              ELSE <<[label |-> label, group |-> group, uid |-> entry_uid(e)]>>)
             \o news_lines(group, Tail(es), asset_filter)

\* latest_news_text (main.py 377-401) from the n-th url on; rs[n] is the
\* answer of FEED_URLS[n].
RECURSIVE latest_news_text(_, _, _)
latest_news_text(n, rs, asset_filter) ==
    IF n > Len(FEED_URLS) THEN <<>>
    ELSE (IF ~rs[n].ok THEN <<>>
          ELSE news_lines(FEED_URLS[n].group,
                          Take(rs[n].entries, LIMIT_PER_FEED), asset_filter))
         \o latest_news_text(n + 1, rs, asset_filter)

\* get_prices returns whatever JSON the price API answered with status 200
\* (main.py 151-152); when that is no object, prices.get in
\* prices_snapshot_text (main.py 369) raises AttributeError, which leaves
\* handle_command.  latest_news_text fetches prices as well (main.py 378) and
\* does not read them.
handler_raises(text, snapshot) ==
    command_of[text].reply = "status" /\ ~has_get(snapshot)

\* handle_command (main.py 403-437): the reply it sends to chat_id.
handle_command(chat_id, text, snapshot, rs) ==
    LET c == command_of[text]
    IN  [to    |-> chat_id,
         reply |-> c.reply,
         body  |-> IF c.reply = "status" THEN prices_snapshot_text(snapshot)
                   ELSE IF c.reply = "news" THEN latest_news_text(1, rs, c.asset)
                   ELSE <<>>]

\* The for loop of commands_loop (main.py 447-454) over a batch: the offset
\* after it, the replies sent, upd["update_id"] of the updates it went
\* through, and whether the exception of a handler left the loop (nothing in
\* handle_command or commands_loop catches it).  Every handler calls
\* get_prices() and feedparser.parse() itself (main.py 365, 378, 384): ss[n]
\* and rss[n] are the price answer and the feed answers the handler of
\* batch[n] gets.
RECURSIVE handle_batch(_, _, _, _)
handle_batch(batch, offset0, ss, rss) ==
    IF batch = <<>>
    THEN [offset |-> offset0, replies |-> <<>>, polled |-> <<>>,
          raised |-> FALSE]
    ELSE LET upd     == Head(batch)
             handled == upd.chat_id # None /\ upd.text # ""
             rest    == handle_batch(Tail(batch), upd.update_id + 1,
                                     Tail(ss), Tail(rss))
         IN  IF handled /\ handler_raises(upd.text, Head(ss))
             THEN [offset |-> upd.update_id + 1, replies |-> <<>>,
                   polled |-> <<upd.update_id>>, raised |-> TRUE]
             ELSE [offset  |-> rest.offset,
                   replies |-> (IF handled
                                THEN <<handle_command(ToString(upd.chat_id),
                                                      upd.text, Head(ss),
                                                      Head(rss))>>
                                ELSE <<>>)
                               \o rest.replies,
                   polled  |-> <<upd.update_id>> \o rest.polled,
                   raised  |-> rest.raised]

\* Dedup keys of the items the /news replies list.
shown_keys(rep) ==
    UNION { { feed_key(rep[n].body[m].group, rep[n].body[m].uid) :
                m \in {x \in 1..Len(rep[n].body) : rep[n].body[x].uid # ""} } :
            n \in {x \in 1..Len(rep) : rep[x].reply = "news"} }

\* commands_loop, main.py 440-441: load the cursor.
CmdStartup ==
    /\ cpc = "start"
    /\ touches("commands", {"offsetFile", "offset"})
    /\ offset' = load_json(offsetFile, None)
    /\ cpc' = "poll"
    /\ UNCHANGED <<env, files, scheduler, cerr, history>>

\* What getUpdates may answer for a cursor: Telegram never returns an update
\* below the offset it is given (`if offset:` sends it only when truthy).
answers_for(answers, cursor) ==
    { a \in answers :
        \A n \in 1..Len(a.result) :
            truthy(cursor) => a.result[n].update_id >= cursor }

\* The replies the handlers of a batch choose.
batch_replies(batch) ==
    { command_of[batch[n].text].reply :
        n \in {x \in 1..Len(batch) : batch[x].chat_id # None /\ batch[x].text # ""} }

\* Some handler of the batch calls get_prices(): prices_snapshot_text for
\* /status (main.py 365), latest_news_text for /news (main.py 378).
fetches_prices(batch) == {"status", "news"} \cap batch_replies(batch) # {}

\* The reply the handler of one update chooses, "" when main.py 453 skips
\* the update.
handler_reply(upd) ==
    IF upd.chat_id # None /\ upd.text # "" THEN command_of[upd.text].reply
    ELSE ""

no_feeds == [n \in 1..Len(FEED_URLS) |-> [ok |-> FALSE, entries |-> <<>>]]

\* The price answers the handlers of a batch get, one for each update (only
\* /status renders its answer), and the feed answers they get, one for each
\* update and url (only /news fetches feeds).
RECURSIVE batch_snapshots(_, _)
batch_snapshots(batch, snapshots) ==
    IF batch = <<>> THEN {<<>>}
    ELSE { <<s>> \o rest :
             s \in (IF handler_reply(Head(batch)) = "status" THEN snapshots
                    ELSE {no_snapshot}),
             rest \in batch_snapshots(Tail(batch), snapshots) }

RECURSIVE batch_feeds(_, _)
batch_feeds(batch, feed_results) ==
    IF batch = <<>> THEN {<<>>}
    ELSE { <<rs>> \o rest :
             rs \in (IF handler_reply(Head(batch)) = "news"
                     THEN [1..Len(FEED_URLS) -> feed_results]
                     ELSE {no_feeds}),
             rest \in batch_feeds(Tail(batch), feed_results) }

\* The body of `while True` in commands_loop (main.py 444-455): poll, handle
\* the batch, save the cursor.  Each handler of the batch gets a price answer
\* and feed answers of its own; the exception of a handler ends the thread
\* before the cursor is saved.
poll_and_handle(answers, snapshots, feed_results) ==
    \E a \in answers_for(answers, offset) :
        IF ~a.ok
        THEN /\ touches("commands", {"offset"})
             /\ UNCHANGED <<offset, offsetFile, cmd_hist, cpc, cerr>>
        ELSE \E ss \in batch_snapshots(a.result, snapshots),
                rss \in batch_feeds(a.result, feed_results) :
               LET res == handle_batch(a.result, offset, ss, rss)
               IN  /\ offset' = res.offset
                   /\ replies' = res.replies
                   /\ cmdShown' = shown_keys(res.replies)
                   /\ polled' = res.polled
                   /\ IF res.raised
                      THEN /\ cpc' = "dead" /\ cerr' = "AttributeError"
                           /\ offsetFile' = offsetFile
                           /\ touches("commands", {"offset", "snapshot"})
                      ELSE /\ cpc' = cpc /\ cerr' = cerr
                           /\ offsetFile' = save_json(res.offset)
                           /\ touches("commands",
                                {"offset", "offsetFile"} \cup
                                (IF fetches_prices(a.result)
                                 THEN {"snapshot"} ELSE {}))

\* An iteration whose /status renders the scheduler's snapshot instead of
\* fetching its own.
CmdPollSharedPrices(answers, snapshots, feed_results) ==
    /\ cpc = "poll"
    /\ \E a \in answers_for(answers, offset) :
         IF ~a.ok
         THEN /\ touches("commands", {"offset"})
              /\ UNCHANGED <<offset, offsetFile, cmd_hist, cpc, cerr>>
         ELSE \E rss \in batch_feeds(a.result, feed_results) :
                LET res == handle_batch(a.result, offset,
                                        [n \in 1..Len(a.result) |-> prices],
                                        rss)
                IN  /\ offset' = res.offset
                    /\ replies' = res.replies
                    /\ cmdShown' = shown_keys(res.replies)
                    /\ polled' = res.polled
                    /\ cpc' = IF res.raised THEN "dead" ELSE cpc
                    /\ cerr' = IF res.raised THEN "AttributeError" ELSE cerr
                    /\ offsetFile' = IF res.raised THEN offsetFile
                                      ELSE save_json(res.offset)
                    /\ touches("commands",
                               {"offset"} \cup
                               (IF res.raised THEN {} ELSE {"offsetFile"}) \cup
                               (IF "status" \in batch_replies(a.result)
                                THEN {"prices"} ELSE {}))
    /\ UNCHANGED <<env, seenFile, targetsFile, scheduler>>
    /\ UNCHANGED <<run_hist, news_hist, target_hist, levelOut, iter_hist,
                   crash_hist, classified>>

\* An iteration whose /news also marks the items it lists as seen.
CmdPollMarkingSeen(answers, snapshots, feed_results) ==
    /\ cpc = "poll"
    /\ poll_and_handle(answers, snapshots, feed_results)
    /\ seen' = seen \cup cmdShown'
    /\ UNCHANGED <<env, seenFile, targetsFile>>
    /\ UNCHANGED <<spc, fi, seen_targets, prices, err>>
    /\ UNCHANGED <<run_hist, news_hist, target_hist, levelOut, iter_hist,
                   crash_hist, classified>>

\* One iteration of `while True` in commands_loop (main.py 443-455); it has
\* no access to the scheduler's dicts and writes OFFSET_FILE only.
CmdPoll(answers, snapshots, feed_results) ==
    /\ cpc = "poll"
    /\ poll_and_handle(answers, snapshots, feed_results)
    /\ UNCHANGED <<env, seenFile, targetsFile, scheduler>>
    /\ UNCHANGED <<run_hist, news_hist, target_hist, levelOut, iter_hist,
                   crash_hist, classified>>

\* save_json raises at main.py 455: nothing catches the OSError, the command
\* thread ends.
CmdSaveFails(answers, snapshots, feed_results) ==
    /\ cpc = "poll"
    /\ \E a \in answers_for(answers, offset) :
         /\ a.ok
         /\ touches("commands",
                    {"offset", "offsetFile"} \cup
                    (IF fetches_prices(a.result) THEN {"snapshot"} ELSE {}))
         /\ \E ss \in batch_snapshots(a.result, snapshots),
               rss \in batch_feeds(a.result, feed_results) :
                LET res == handle_batch(a.result, offset, ss, rss)
                IN  /\ ~res.raised
                    /\ offset' = res.offset
                    /\ replies' = res.replies
                    /\ cmdShown' = shown_keys(res.replies)
                    /\ polled' = res.polled
    /\ offsetFile' \in torn_files(offsetFile, None)
    /\ cpc' = "dead"
    /\ cerr' = "OSError"
    /\ UNCHANGED <<env, seenFile, targetsFile, scheduler>>
    /\ UNCHANGED <<run_hist, news_hist, target_hist, levelOut, iter_hist,
                   crash_hist, classified>>

Commands(answers, snapshots, feed_results) ==
    \/ CmdStartup
    \/ CmdPoll(answers, snapshots, feed_results)

(************************ restarts, crashes, faults ************************)

\* The notification channel goes down or comes back: every requests.post of
\* send() (main.py 131-138) succeeds or raises on its own, so the channel may
\* change before any step of either thread.
ChannelChanges ==
    /\ delivers' = ~delivers
    /\ UNCHANGED <<CHAT_ID_DEFAULT, CP_TOKEN, files, scheduler, commands,
                   history, access>>

\* What a kill of the process leaves of the turn of `while True` the command
\* thread is in (main.py 443-455).  The thread is not running, is between
\* two turns or waits for getUpdates: nothing.  It is in the for loop: the
\* handlers of the first n updates have returned and, when m = 1, the next
\* one has called get_prices(); the cursor file is as it was.  It is inside
\* save_json (main.py 455): every handler has returned, open(path, "w") has
\* emptied the cursor file and nothing is written yet.  The replies that
\* were posted are not kept by a process that starts again.  Each cut is
\* told by whether a handler has fetched the prices and whether the save has
\* begun.
turn_cuts(answers, snapshots, cursor) ==
    UNION { { [snapshot |-> fetches_prices(Take(a.result, n + m)),
               saving   |-> n = Len(a.result) /\ m = 1] :
                 n \in {k \in 0..Len(a.result) :
                           "status" \in batch_replies(Take(a.result, k))
                               => \E s \in snapshots : has_get(s)},
                 m \in 0..1 } :
              a \in {x \in answers_for(answers, cursor) : x.ok} }

\* The cursors the command thread polls with: None, the one a cursor file
\* holds, or one more than an update_id.
CURSORS == {None} \cup 1..(MaxUpdateId + 1)

\* The cuts of a turn for every cursor, whatever Telegram and the price API
\* answer, computed once.
KILL_CUTS ==
    [cursor \in CURSORS |-> turn_cuts(PAIR_ANSWERS, COMMAND_SNAPSHOTS, cursor)]

\* The kill leaves the command thread's part of the files and of the record
\* of accesses as they are, or as one of the cuts of its turn leaves them;
\* `touched` is what the step the scheduler was killed in had read or
\* written by then.
turn_cut(touched) ==
    \/ /\ access' = access \cup touched
       /\ UNCHANGED offsetFile
    \/ /\ cpc = "poll"
       /\ \E cut \in KILL_CUTS[offset] :
            /\ access' = access \cup touched \cup
                 {<<"commands", o>> :
                    o \in {"offset"}
                          \cup (IF cut.snapshot THEN {"snapshot"} ELSE {})
                          \cup (IF cut.saving THEN {"offsetFile"} ELSE {})}
            /\ offsetFile' = IF cut.saving THEN corrupt_file(None)
                             ELSE offsetFile

\* The process starts again: memory is gone, the files and the counts of
\* what was broadcast stay, the environment is read again.  The kill that
\* came before finds the command thread anywhere in its turn, whatever
\* Telegram and the price API answered.
restarted(chats, tokens, touched) ==
    /\ CHAT_ID_DEFAULT' \in chats
    /\ CP_TOKEN' \in tokens
    /\ spc' = "start" /\ fi' = 1 /\ seen' = {} /\ seen_targets' = no_targets
    /\ prices' = no_snapshot /\ err' = "none"
    /\ cpc' = "start" /\ offset' = None /\ cerr' = "none"
    /\ delivers' = delivers
    /\ startup_to' = "-" /\ loaded' = {} /\ loaded_targets' = no_targets
    /\ newsOut' = {} /\ targetOut' = {} /\ levelOut' = <<>>
    /\ stages' = <<>> /\ fetched' = <<>> /\ used' = {}
    /\ lastScan' = no_scan
    /\ cmdShown' = {} /\ replies' = <<>> /\ polled' = <<>>
    /\ turn_cut(touched)
    /\ UNCHANGED classified

\* The process is stopped while the scheduler sleeps (everything of the
\* iteration is saved), and started again.
Restart(chats, tokens) ==
    /\ spc = "sleep"
    /\ restarted(chats, tokens, {})
    /\ UNCHANGED <<seenFile, targetsFile, newsCount, offered, reoffered,
                   skipped, targetCount, crash_hist, undelivered, dropped>>

\* Most process crashes a behaviour of the model goes through.
MaxCrashes == 1

\* The process dies between two steps of the scheduler (power cut, kill -9,
\* or an operator restarting it after one of its threads died) and is
\* started again.
Crash(chats, tokens) ==
    /\ crashes < MaxCrashes
    /\ spc # "start" \/ cpc # "start"
    /\ restarted(chats, tokens, {})
    /\ crashes' = crashes + 1
    /\ lost' = seen
    /\ UNCHANGED <<seenFile, targetsFile, newsCount, offered, reoffered,
                   skipped, targetCount, undelivered, dropped>>

\* The process dies at the start of scheduler_loop (main.py 338-340): before
\* the first load_json (n = 0), between the two (n = 1), or after both, the
\* start announced or not (n = 2).
CrashInStartup(chats, tokens) ==
    /\ crashes < MaxCrashes
    /\ spc = "start"
    /\ \E n \in 0..2 :
         /\ restarted(chats, tokens,
              {<<"scheduler", o>> :
                 o \in (IF n >= 1 THEN {"seenFile", "seen"} ELSE {})
                       \cup (IF n = 2 THEN {"targetsFile", "seen_targets"}
                             ELSE {})})
         /\ lost' = IF n >= 1 THEN load_json(seenFile, {}) ELSE {}
    /\ crashes' = crashes + 1
    /\ UNCHANGED <<seenFile, targetsFile, newsCount, offered, reoffered,
                   skipped, targetCount, undelivered, dropped>>

\* The process dies inside scan_feeds, in the loop over the entries of the
\* url whose turn it is (main.py 186-220): n entries have gone through the
\* loop, and the next one has been broadcast (main.py 219) but not marked
\* when m = n + 1.
CrashInScanFeeds(chats, tokens, feed_results) ==
    /\ crashes < MaxCrashes
    /\ spc = "scan_feeds"
    /\ \E r \in {x \in feed_results : x.ok} :
         \E n \in 0..(Len(Take(r.entries, ENTRY_CAP)) - 1), m \in 0..1 :
           LET group == FEED_URLS[fi].group
               done  == scan_url(group, [r EXCEPT !.entries = Take(@, n)],
                                 seen, prices, CHAT_ID_DEFAULT)
               sent  == scan_url(group, [r EXCEPT !.entries = Take(@, n + m)],
                                 seen, prices, CHAT_ID_DEFAULT)
               keys  == offered_keys(group, r)
           IN  /\ ~sent.raised
               /\ newsCount' = [k \in NEWS_KEYS |->
                                  newsCount[k] + count_key(sent.msgs, k)]
               /\ offered' = offered \cup keys
               /\ reoffered' = reoffered \cup (keys \cap loaded)
               /\ skipped' = (skipped \cup keys) \ sent.seen
               /\ \E ups \in post_outcomes(Len(sent.msgs), delivers) :
                    undelivered' =
                      [undelivered EXCEPT
                         !.news = @ \cup failed_news(sent.msgs, ups)]
               /\ dropped' =
                    [dropped EXCEPT
                       !.news = @ \cup dropped_news(sent.msgs)]
               /\ lost' = done.seen
    /\ restarted(chats, tokens, {})
    /\ crashes' = crashes + 1
    /\ UNCHANGED <<seenFile, targetsFile, targetCount>>

\* The answers of CryptoPanic when the process dies in the loop over the
\* items of the j-th symbol: the symbols after it have not been asked.
cp_asked(rs, j) ==
    [i \in 1..Len(CP_SYMBOLS) |->
        IF i <= j THEN rs[i] ELSE [ok |-> FALSE, data |-> <<>>]]

\* The process dies inside scan_cryptopanic, in the loop over the items of
\* the j-th symbol (main.py 236-258): n of them have gone through the loop,
\* and the next one has been broadcast (main.py 257) but not marked when
\* m = n + 1.
CrashInScanCryptopanic(chats, tokens, cp_results) ==
    /\ crashes < MaxCrashes
    /\ spc = "scan_cryptopanic"
    /\ CP_TOKEN # ""
    /\ \E rs \in [1..Len(CP_SYMBOLS) -> cp_results] :
         \E j \in {x \in 1..Len(CP_SYMBOLS) : rs[x].ok} :
           \E n \in 0..(Len(Take(rs[j].data, ENTRY_CAP)) - 1), m \in 0..1 :
             LET asked == cp_asked(rs, j)
                 done  == scan_cryptopanic(CP_TOKEN,
                              [asked EXCEPT ![j].data = Take(@, n)],
                              seen, prices, CHAT_ID_DEFAULT)
                 sent  == scan_cryptopanic(CP_TOKEN,
                              [asked EXCEPT ![j].data = Take(@, n + m)],
                              seen, prices, CHAT_ID_DEFAULT)
                 keys  == cp_offered_keys(CP_TOKEN, asked)
             IN  /\ ~sent.raised
                 /\ newsCount' = [k \in NEWS_KEYS |->
                                    newsCount[k] + count_key(sent.msgs, k)]
                 /\ offered' = offered \cup keys
                 /\ reoffered' = reoffered \cup (keys \cap loaded)
                 /\ skipped' = (skipped \cup keys) \ sent.seen
                 /\ \E ups \in post_outcomes(Len(sent.msgs), delivers) :
                      undelivered' =
                        [undelivered EXCEPT
                           !.news = @ \cup failed_news(sent.msgs, ups)]
                 /\ dropped' =
                      [dropped EXCEPT
                         !.news = @ \cup dropped_news(sent.msgs)]
                 /\ lost' = done.seen
    /\ restarted(chats, tokens, {})
    /\ crashes' = crashes + 1
    /\ UNCHANGED <<seenFile, targetsFile, targetCount>>

\* The process dies inside check_predictions: after the first n targets, or
\* in save_json, whose open(path, "w") has emptied the file by then.
CrashInCheckPredictions(chats, tokens) ==
    /\ crashes < MaxCrashes
    /\ spc = "check_predictions"
    /\ \E n \in 0..Len(pred_list(1)) :
         LET res == check_targets(1, n, seen_targets, prices, CHAT_ID_DEFAULT)
         IN  /\ ~res.raised
             /\ targetCount' = counted(targetCount, res.msgs)
             /\ \E ups \in post_outcomes(Len(res.msgs), delivers) :
                  undelivered' =
                    [undelivered EXCEPT
                       !.targets = @ \cup failed_targets(res.msgs, ups)]
             /\ dropped' =
                  [dropped EXCEPT
                     !.targets = @ \cup dropped_targets(res.msgs)]
             /\ targetsFile' \in
                  IF n = Len(pred_list(1))
                  THEN torn_files(targetsFile, no_targets)
                  ELSE {targetsFile}
    /\ restarted(chats, tokens, {})
    /\ crashes' = crashes + 1
    /\ lost' = seen
    /\ UNCHANGED <<seenFile, newsCount, offered, reoffered, skipped>>

\* The process dies inside save_json(SEEN_ITEMS_FILE, seen), after open().
CrashInSaveSeen(chats, tokens) ==
    /\ crashes < MaxCrashes
    /\ spc = "save_seen"
    /\ seenFile' = corrupt_file({})
    /\ restarted(chats, tokens, {})
    /\ crashes' = crashes + 1
    /\ lost' = seen
    /\ UNCHANGED <<targetsFile, newsCount, offered, reoffered, skipped,
                   targetCount, undelivered, dropped>>

\* save_json raises in check_predictions (disk full, no permission): nothing
\* catches the OSError, the scheduler thread ends.
SaveTargetsFails ==
    /\ spc = "check_predictions"
    /\ touches("scheduler", {"prices", "seen_targets", "targetsFile"})
    /\ LET res == check_targets(1, Len(pred_list(1)), seen_targets, prices,
                                CHAT_ID_DEFAULT)
       IN  /\ ~res.raised
           /\ seen_targets' = res.targets
           /\ targetOut' = Range(res.msgs)
           /\ targetCount' = counted(targetCount, res.msgs)
           /\ \E ups \in post_outcomes(Len(res.msgs), delivers) :
                undelivered' =
                  [undelivered EXCEPT
                     !.targets = @ \cup failed_targets(res.msgs, ups)]
           /\ dropped' =
                [dropped EXCEPT
                   !.targets = @ \cup dropped_targets(res.msgs)]
    /\ targetsFile' \in torn_files(targetsFile, no_targets)
    /\ used' = used \cup {prices}
    /\ spc' = "dead"
    /\ err' = "OSError"
    /\ stages' = Append(stages, "check_predictions")
    /\ lastScan' = no_scan
    /\ UNCHANGED <<env, seenFile, offsetFile, commands, fi, seen, prices>>
    /\ UNCHANGED <<startup_to, loaded, loaded_targets, news_hist, levelOut, fetched, cmd_hist,
                   crash_hist, classified>>

\* save_json raises at main.py 348.
SaveSeenFails ==
    /\ spc = "save_seen"
    /\ touches("scheduler", {"seen", "seenFile"})
    /\ seenFile' \in torn_files(seenFile, {})
    /\ spc' = "dead"
    /\ err' = "OSError"
    /\ UNCHANGED <<env, targetsFile, offsetFile, commands, fi, seen,
                   seen_targets, prices>>
    /\ UNCHANGED <<history>>

Faults(chats, tokens, feed_results, cp_results) ==
    \/ Crash(chats, tokens)
    \/ CrashInStartup(chats, tokens)
    \/ CrashInScanFeeds(chats, tokens, feed_results)
    \/ CrashInScanCryptopanic(chats, tokens, cp_results)
    \/ CrashInCheckPredictions(chats, tokens)
    \/ CrashInSaveSeen(chats, tokens)
    \/ SaveTargetsFails
    \/ SaveSeenFails

(**************************** specifications ******************************)

\* The scheduler alone; the process is restarted only between iterations.
\* Spec varies the news answers, SpecPrices the price answers.
Init == InitWith({"1001"}, {"tok"})

Next ==
    \/ Scheduler(FEW_SNAPSHOTS, FEED_RESULTS, ID_CP_RESULTS)
    \/ Restart({"1001"}, {"tok"})

Spec == Init /\ [][Next]_vars

NextPrices ==
    \/ Scheduler(SNAPSHOTS, FEW_FEED_RESULTS, NO_CP_RESULTS)
    \/ Restart({"1001"}, {"tok"})

SpecPrices == Init /\ [][NextPrices]_vars

\* The scheduler with crashes of the process and failing writes.
InitFaults == InitWith({"1001"}, {"tok"})

\* What the sources return to a scan the process is killed in: the answers
\* of the scans that end, and those of two different entries or items.
KILLED_FEED_RESULTS ==
    FEW_FEED_RESULTS \cup
    {[ok |-> TRUE, entries |-> d] :
        d \in {x \in [1..2 -> ENTRIES] :
                  x[1] # x[2] /\ entry_uid(x[1]) # "" /\ entry_uid(x[2]) # ""}}

KILLED_CP_RESULTS ==
    CP_RESULTS \cup
    {[ok |-> TRUE, data |-> d] :
        d \in {x \in [1..2 -> CP_ITEMS] : x[1] # x[2]}}

NextFaults ==
    \/ Scheduler(PRICED_SNAPSHOTS, FEW_FEED_RESULTS, ID_CP_RESULTS)
    \/ Faults({"1001"}, {"tok"}, KILLED_FEED_RESULTS, KILLED_CP_RESULTS)

SpecFaults == InitFaults /\ [][NextFaults]_vars

\* The scheduler with a process that is killed, between two stages, inside
\* the loads of the start, inside the scan of a feed or inside the save of
\* the dedup set, under one full price answer and a CryptoPanic that does
\* not answer.
NextKills ==
    \/ Scheduler(FULL_SNAPSHOTS, FEW_FEED_RESULTS, NO_CP_RESULTS)
    \/ Crash({"1001"}, {"tok"})
    \/ CrashInStartup({"1001"}, {"tok"})
    \/ CrashInScanFeeds({"1001"}, {"tok"}, KILLED_FEED_RESULTS)
    \/ CrashInSaveSeen({"1001"}, {"tok"})

SpecKills == InitFaults /\ [][NextKills]_vars

\* Both threads, in every interleaving of their steps.
InitThreads == InitWith({"1001"}, {""})

NextThreads ==
    \/ Scheduler(FEW_SNAPSHOTS, FEW_FEED_RESULTS, NO_CP_RESULTS)
    \/ Commands(SINGLE_ANSWERS, CMD_SNAPSHOTS, CMD_FEED_RESULTS)
    \/ SaveTargetsFails
    \/ SaveSeenFails
    \/ CmdSaveFails(SINGLE_ANSWERS, CMD_SNAPSHOTS, CMD_FEED_RESULTS)

SpecThreads == InitThreads /\ [][NextThreads]_vars

\* The scheduler with a notification channel that fails at times; the
\* prices approach and reach the targets.
DELIVERY_SNAPSHOTS ==
    {s \in SNAPSHOTS :
        /\ DOMAIN s = {"bitcoin", "avalanche-2"}
        /\ s["bitcoin"] \in { [usd |-> 117000, eur |-> 97000],
                              [usd |-> 120000, eur |-> 100000] } }

NextDelivery ==
    \/ Scheduler(DELIVERY_SNAPSHOTS, FEW_FEED_RESULTS, ID_CP_RESULTS)
    \/ Restart({"1001"}, {"tok"})
    \/ ChannelChanges

SpecDelivery == InitFaults /\ [][NextDelivery]_vars

\* The command thread alone, with batches of two updates; each handler gets
\* no prices, all of them, or a price answer that is not an object, and feeds
\* that fail or return an entry.  The write of the cursor file may fail, and
\* the process may be killed anywhere in a turn and started again.
NO_FEED_RESULTS == {[ok |-> FALSE, entries |-> <<>>]}

NextCommands ==
    \/ Commands(PAIR_ANSWERS, COMMAND_SNAPSHOTS, CMD_FEED_RESULTS)
    \/ CmdSaveFails(PAIR_ANSWERS, COMMAND_SNAPSHOTS, CMD_FEED_RESULTS)
    \/ Crash({"1001"}, {""})

SpecCommands == InitThreads /\ [][NextCommands]_vars

\* The scheduler with items that come without an identifier, from the feeds
\* and from CryptoPanic, under one full price answer or one that is a list.
ITEM_SNAPSHOTS == FULL_SNAPSHOTS \cup {json_list}

NextItems ==
    \/ Scheduler(ITEM_SNAPSHOTS, SHORT_FEED_RESULTS, CP_RESULTS)
    \/ Restart({"1001"}, {"tok"})

SpecItems == InitFaults /\ [][NextItems]_vars

\* Both threads, started over files that are absent, cut short or whole,
\* and started again after a stop that finds the command thread anywhere in
\* its turn and may have cut the cursor file short.
InitLoad ==
    /\ InitFiles({"1001"}, {""}, SEEN_FILES, TARGETS_FILES, OFFSET_FILES)
    /\ classified = unclassified

NextLoad ==
    \/ Scheduler(FULL_SNAPSHOTS, FEW_FEED_RESULTS, NO_CP_RESULTS)
    \/ Commands(SINGLE_ANSWERS, {no_snapshot}, NO_FEED_RESULTS)
    \/ Restart({"1001"}, {""})

SpecLoad == InitLoad /\ [][NextLoad]_vars

\* classify_action alone, applied to every pair of texts of the model.
InitClassify ==
    /\ InitFiles({"1001"}, {""}, {absent_file({})}, {absent_file(no_targets)},
                 {absent_file(None)})
    /\ classified \in TEXT_PAIRS

Classify ==
    /\ classified.action = ""
    /\ classified' =
         [classified EXCEPT
            !.action = classify_action(spaced(classified.title),
                                       spaced(classified.summary))]
    /\ UNCHANGED <<env, files, scheduler, commands, access, run_hist,
                   news_hist, target_hist, levelOut, iter_hist, cmd_hist,
                   crash_hist>>

SpecClassify == InitClassify /\ [][Classify]_vars

\* The scheduler started with or without CHAT_ID, and started again with
\* or without it after a stop between two iterations, after a kill (between
\* two stages, inside the loads of the start, inside the scan of a feed,
\* inside check_predictions and its save, inside the save of the dedup set)
\* or after a save that raised and ended the thread.
\* The price answer is a full one under which the first target of BTC is
\* reached, the second approached, and levels of BTC are pinged.
CHAT_SNAPSHOTS ==
    {s \in SNAPSHOTS :
        /\ DOMAIN s = {"bitcoin", "avalanche-2"}
        /\ s["bitcoin"] = [usd |-> 120000, eur |-> 97000]}

InitChats == InitWith(CHAT_IDS, {"tok"})

NextChats ==
    \/ Scheduler(CHAT_SNAPSHOTS, FEW_FEED_RESULTS, NO_CP_RESULTS)
    \/ Restart(CHAT_IDS, {"tok"})
    \/ Crash(CHAT_IDS, {"tok"})
    \/ CrashInStartup(CHAT_IDS, {"tok"})
    \/ CrashInScanFeeds(CHAT_IDS, {"tok"}, FEW_FEED_RESULTS)
    \/ CrashInCheckPredictions(CHAT_IDS, {"tok"})
    \/ CrashInSaveSeen(CHAT_IDS, {"tok"})
    \/ SaveTargetsFails
    \/ SaveSeenFails

SpecChats == InitChats /\ [][NextChats]_vars


(******************************* properties *******************************)

\* C1: news dedup is idempotent.  Whatever the feeds return and however often
\* the process is restarted after the dedup set was saved, scan_feeds has
\* broadcast exactly one notification for every dedup key a feed has returned
\* (and none for a key no feed returned).
C1_DedupExactlyOnce ==
    \A k \in FEED_KEYS : newsCount[k] = IF k \in offered THEN 1 ELSE 0

\* A key came back from a feed in a run that had loaded it from the dedup
\* file, and still has its single notification.
C1_Witness ==
    \E k \in FEED_KEYS : k \in reoffered /\ k \in loaded /\ newsCount[k] = 1

\* C3: target states are monotonic.  No step of the scheduler, whatever the
\* price snapshot (prices missing included), turns `reached` or `noted` from
\* true to false, neither in the state the scheduler works from (the dict in
\* memory, the file before it is loaded) nor in the persisted map.
working_targets(mem, file, pc) ==
    IF pc = "start" THEN load_json(file, no_targets) ELSE mem

flag(targets, k, f) == k \in DOMAIN targets /\ targets[k][f]

keeps_flags(before, after) ==
    \A k \in TARGET_KEYS :
        /\ flag(before, k, "reached") => flag(after, k, "reached")
        /\ flag(before, k, "noted") => flag(after, k, "noted")

C3_TargetsMonotonic ==
    [][ /\ keeps_flags(working_targets(seen_targets, targetsFile, spc),
                       working_targets(seen_targets', targetsFile', spc'))
        /\ keeps_flags(load_json(targetsFile, no_targets),
                       load_json(targetsFile', no_targets)) ]_vars

\* check_predictions has just handled a snapshot without prices while a
\* target was reached and noted, in memory and on disk.
C3_Witness ==
    /\ spc = "check_user_levels"
    /\ prices = no_snapshot
    /\ \E k \in TARGET_KEYS :
         /\ k \in DOMAIN seen_targets
         /\ seen_targets[k].reached /\ seen_targets[k].noted
         /\ targetsFile.st = "ok" /\ targetsFile.data = seen_targets

\* C4: target notifications are at most once and ordered.  Every target gets
\* at most one "reached" and at most one "approaching" broadcast; an
\* iteration that broadcasts "approaching" for a target leaves it not
\* reached (so none comes in or after the iteration that reached it); and a
\* target reached without having been noted never had an "approaching".
C4_TargetNotifications ==
    /\ \A k \in TARGET_KEYS :
         /\ targetCount[k].reached <= 1
         /\ targetCount[k].approaching <= 1
         /\ (flag(seen_targets, k, "reached")
             /\ ~flag(seen_targets, k, "noted"))
                => targetCount[k].approaching = 0
    /\ \A m \in targetOut :
         m.kind = "approaching" => ~flag(seen_targets, m.key, "reached")

\* One target was approached and later reached, another was reached in one
\* jump from outside the band.
C4_Witness ==
    \E k1, k2 \in TARGET_KEYS :
        /\ targetCount[k1].approaching = 1 /\ targetCount[k1].reached = 1
        /\ targetCount[k2].approaching = 0 /\ targetCount[k2].reached = 1
        /\ \E m \in targetOut : m.key = k2 /\ m.kind = "reached"


\* C2: recovery of the dedup state after a crash.  As claimed: a key that
\* was marked seen when the process crashed is not notified again after the
\* restart.
C2_MarkedNeverRenotified == \A k \in lost : newsCount[k] <= 1

\* C2, as the code has it: the dedup set is written at the end of a
\* completed iteration only, so what survives a crash is what the restart
\* loads from the file.  No step notifies a key of the loaded set, and every
\* key a source has returned has been notified at least once, but for the
\* keys of a scan that was killed before it looked at them: these wait for
\* a scan that returns them again.
C2_LoadedNeverRenotified ==
    [][ \A k \in NEWS_KEYS :
          /\ k \in loaded' => newsCount'[k] = newsCount[k]
          /\ k \in offered' \ skipped' => newsCount'[k] >= 1 ]_vars

\* After a crash inside a scan and a restart, a key saved before the crash
\* came back and was not notified, a key marked in the interrupted iteration
\* only came back and was notified a second time, and a key the killed scan
\* had not looked at has not come back yet.
C2_Witness ==
    /\ crashes >= 1
    /\ \E k \in loaded \cap reoffered : k \in lost /\ newsCount[k] = 1
    /\ \E k \in lost \ loaded : newsCount[k] = 2
    /\ \E k \in skipped : newsCount[k] = 0

\* C5: the level monitor fires in every iteration in which a level's
\* predicate holds of the USD price.  As claimed: once check_user_levels has
\* run in an iteration, every warn_up and break_even level at or below the
\* price has its notification among those of the iteration.
levels_ran ==
    \/ "check_user_levels" \in Range(stages)
    \/ err = "TypeError" /\ "check_predictions" \in Range(stages)

due_levels(a) ==
    LET usd == px_get(prices, CG_IDS_get(a), "usd")
        cfg == USER_ALERTS[a]
    IN  IF usd = None THEN {}
        ELSE {<<"warn_up", cfg.warn_up[n]>> :
                 n \in {x \in 1..Len(cfg.warn_up) : usd >= cfg.warn_up[x]}}
             \cup
             {<<"break_even", cfg.break_even[n]>> :
                 n \in {x \in 1..Len(cfg.break_even) : usd >= cfg.break_even[x]}}

C5_DueLevelsFire ==
    levels_ran =>
        \A n \in 1..Len(ALERT_ASSETS) :
            \A d \in due_levels(ALERT_ASSETS[n]) :
                \E i \in 1..Len(levelOut) :
                    /\ levelOut[i].asset = ALERT_ASSETS[n]
                    /\ levelOut[i].family = d[1]
                    /\ levelOut[i].level = <<d[2]>>

\* C6: a snapshot that lacks a price never stops the scheduler.  As claimed:
\* the scheduler thread never ends with the TypeError of a price that cannot
\* be formatted.
C6_MissingPriceNeverHalts == ~(spc = "dead" /\ err = "TypeError")

\* C7: a save that fails ends neither loop.  As claimed: neither the
\* scheduler thread nor the command thread ends with the OSError of a
\* save_json.
C7_SaveFailureNeverHalts ==
    /\ ~(spc = "dead" /\ err = "OSError")
    /\ ~(cpc = "dead" /\ cerr = "OSError")

\* C8: the target state on disk is crash safe.  As claimed: whatever step is
\* taken, a crash during the write included, a flag that the file held
\* before is held by the file after (what a restart loads never forgets a
\* persisted flag).
C8_PersistedFlagsSurvive ==
    [][ keeps_flags(load_json(targetsFile, no_targets),
                    load_json(targetsFile', no_targets)) ]_vars


\* The stages of one iteration in the order scheduler_loop runs them
\* (main.py 343-349); the write of the target state is the last line of
\* check_predictions (main.py 301).
ITERATION ==
    <<"get_prices", "scan_feeds", "scan_cryptopanic", "check_predictions",
      "save_seen_targets", "check_user_levels", "save_seen", "sleep">>

is_prefix(s, t) == Len(s) <= Len(t) /\ \A n \in 1..Len(s) : s[n] = t[n]

first_index(s, x) ==
    IF x \in Range(s) THEN CHOOSE n \in 1..Len(s) :
                              s[n] = x /\ \A m \in 1..(n - 1) : s[m] # x
    ELSE 0

one_snapshot == Len(fetched) <= 1 /\ used \subseteq Range(fetched)

\* C9: the order of one scheduler iteration.  As claimed: an iteration
\* fetches one snapshot, runs the aggregators, the target tracker and the
\* level monitor on that snapshot, and writes both state files only after
\* the level monitor has run, before it sleeps.
C9_BothFilesAfterLevels ==
    /\ one_snapshot
    /\ \A n \in 1..Len(stages) :
         stages[n] \in {"save_seen", "save_seen_targets"} =>
             /\ first_index(stages, "check_user_levels") > 0
             /\ first_index(stages, "check_user_levels") < n

\* C10: commands are read-only for the scheduler's state.  A step that
\* changes anything of the command thread (its cursor, its file, what it
\* answered) leaves the dedup set, the target state and their two files as
\* they were; an item listed by /news is not marked seen.
C10_CommandsLeaveSchedulerState ==
    [][ (<<commands, offsetFile, cmd_hist>>' # <<commands, offsetFile, cmd_hist>>)
            => UNCHANGED <<seen, seen_targets, seenFile, targetsFile>> ]_vars

\* /news has listed an item whose key the running scheduler has not marked
\* seen, and OFFSET_FILE has been written.
C10_Witness ==
    /\ spc \notin {"start", "dead"}
    /\ offsetFile.st = "ok"
    /\ \E k \in cmdShown : k \notin seen /\ newsCount[k] = 0


\* C11: the cursor after a batch.  As claimed: when the loop has gone through
\* a non-empty batch and polls again, the cursor it polls with and the
\* cursor in the file are the highest update id of the batch plus one,
\* whatever the order of the batch.
max_id(ids) == CHOOSE x \in Range(ids) : \A y \in Range(ids) : y <= x

C11_CursorIsMaxPlusOne ==
    (cpc = "poll" /\ polled # <<>>) =>
        /\ offset = max_id(polled) + 1
        /\ offsetFile.st = "ok" /\ offsetFile.data = max_id(polled) + 1

\* C12: a failing handler does not stop the command loop.  As claimed: the
\* command thread never ends with the exception of a handler.
C12_HandlerFailureNeverHalts == ~(cpc = "dead" /\ cerr = "AttributeError")


\* C13: the two threads own disjoint state.  In every interleaving, every
\* object a thread has read or written is one of its own (the scheduler's:
\* the dedup file, the target-state file, seen, seen_targets, prices; the
\* command thread's: the cursor file, offset, the snapshot of a handler); a
\* step that changes the command thread's state leaves the scheduler's
\* objects as they were, and a step that changes the scheduler's state
\* leaves the cursor and its file as they were.
owner(o) ==
    IF o \in {"seenFile", "targetsFile", "seen", "seen_targets", "prices"}
    THEN "scheduler"
    ELSE "commands"

C13_DisjointOwnership ==
    [][ /\ \A x \in access' : x[1] = owner(x[2])
        /\ (<<commands, cmd_hist>>' # <<commands, cmd_hist>>)
             => UNCHANGED <<seen, seen_targets, prices, seenFile, targetsFile>>
        /\ (<<scheduler, iter_hist>>' # <<scheduler, iter_hist>>)
             => UNCHANGED <<offset, offsetFile>> ]_vars

\* Both threads are running and each has used every object of its own.
C13_Witness ==
    /\ spc \notin {"start", "dead"} /\ cpc = "poll"
    /\ access = {<<owner(o), o>> :
                    o \in {"seenFile", "targetsFile", "seen", "seen_targets",
                           "prices", "offsetFile", "offset", "snapshot"}}
    /\ seen # {} /\ offset # None


\* C14: a failed delivery still advances the state.  When send() failed for
\* a news notification, the scheduler goes on, the item's key is in the
\* dedup set it works from, and the notification has been attempted once and
\* no more; when it failed for a "reached" or an "approaching" notification,
\* the target's flag is set and that notification has been attempted once.
working_seen == IF spc = "start" THEN load_json(seenFile, {}) ELSE seen

C14_FailedDeliveryAdvances ==
    /\ spc # "dead"
    /\ \A k \in undelivered.news : k \in working_seen /\ newsCount[k] = 1
    /\ \A t \in undelivered.targets :
         /\ flag(working_targets(seen_targets, targetsFile, spc), t[1],
                 IF t[2] = "reached" THEN "reached" ELSE "noted")
         /\ targetCount[t[1]][t[2]] = 1

\* The channel is up again, a restart has loaded the dedup set, a feed has
\* returned again an item whose notification was lost, and a "reached" and
\* an "approaching" notification were lost as well.
C14_Witness ==
    /\ delivers
    /\ \E k \in undelivered.news : k \in reoffered /\ k \in loaded
    /\ \E t1, t2 \in undelivered.targets :
         t1[2] = "reached" /\ t2[2] = "approaching"


\* C15: a feed that fails is skipped, alone.  Every step of the scan stages
\* asks the source whose turn it is and hands over to the next one (the next
\* url, CryptoPanic after the last url, the target tracker after
\* CryptoPanic), whatever the answer, so every url is asked in every
\* iteration; and when the source did not answer, the step leaves the dedup
\* set as it was and notifies nothing.
C15_FeedFailureIsolated ==
    [][ (spc \in {"scan_feeds", "scan_cryptopanic"}
         /\ <<spc, fi>>' # <<spc, fi>> /\ lastScan'.url # None)
        => /\ IF spc = "scan_feeds"
              THEN /\ lastScan'.url = fi
                   /\ IF fi < Len(FEED_URLS)
                      THEN spc' = "scan_feeds" /\ fi' = fi + 1
                      ELSE spc' = "scan_cryptopanic" /\ fi' = 1
              ELSE spc' = "check_predictions"
           /\ ~lastScan'.ok =>
                /\ seen' = seen
                /\ newsCount' = newsCount /\ newsOut' = newsOut
                /\ offered' = offered ]_vars

\* The second url has just failed in an iteration in which the first one
\* brought a notification; the third url is next.
C15_Witness ==
    /\ spc = "scan_feeds" /\ fi = 3
    /\ lastScan = [url |-> 2, ok |-> FALSE]
    /\ newsOut # {} /\ seen # {}


\* C16: an item without an identifier is discarded by both aggregators: the
\* key an id-less item would get (the group or the "cp:" namespace followed
\* by nothing, or by the text of a missing id) is never in the dedup set and
\* never the key of a notification.
IDLESS_KEYS ==
    { feed_key(FEED_URLS[n].group, "") : n \in 1..Len(FEED_URLS) } \cup
    { cp_key(CP_SYMBOLS[n], None) : n \in 1..Len(CP_SYMBOLS) }

C16_IdlessItemsDiscarded ==
    /\ seen \cap IDLESS_KEYS = {}
    /\ \A m \in newsOut : m.key \notin IDLESS_KEYS


\* C17: a file that is absent or does not parse is not fatal.  The scheduler
\* that finds no readable dedup file starts from the empty set, the one that
\* finds no readable target file from the empty map, and goes on to its
\* first iteration, whose stages run in their order; the command thread
\* that finds no readable cursor file starts to poll with no offset; neither
\* thread ends.
C17_LoadFailureNotFatal ==
    [][ /\ (spc = "start" /\ spc' # "start")
          => /\ spc' = "get_prices"
             /\ seenFile.st # "ok" => seen' = {}
             /\ targetsFile.st # "ok" => DOMAIN seen_targets' = {}
        /\ (cpc = "start" /\ cpc' # "start")
          => /\ cpc' = "poll"
             /\ offsetFile.st # "ok" => offset' = None
        /\ is_prefix(stages', ITERATION)
        /\ spc' # "dead" /\ cpc' # "dead" ]_vars

\* The scheduler, started over a dedup file that does not parse, has
\* notified a news item and is about to write the file; the command thread,
\* started over a cursor file that does not parse, polls with no offset.
C17_Witness ==
    /\ seenFile.st = "corrupt" /\ spc = "save_seen"
    /\ loaded = {} /\ newsOut # {}
    /\ offsetFile.st = "corrupt" /\ cpc = "poll" /\ offset = None


\* C18: the verdict of classify_action follows the polarity of the words of
\* the text: sell as soon as one word carries a negative keyword, whatever
\* positive keywords are present; buy when no word carries a negative
\* keyword and one carries a positive keyword; hold otherwise.
\* "Delisting" carries both "delist" and "listing", "Urban" carries "ban".
NEGATIVE_WORDS == {"Hack", "HACK", "Delisting", "Urban"}

POSITIVE_WORDS == {"listing", "Delisting", "ETF"}

C18_ClassifierPriority ==
    classified.action # "" =>
        LET ws == Range(classified.title) \cup Range(classified.summary)
        IN  classified.action =
              IF ws \cap NEGATIVE_WORDS # {} THEN "Prendre des profits / Reduire"
              ELSE IF ws \cap POSITIVE_WORDS # {} THEN "Acheter +"
              ELSE "Hold"

\* "Hack listing", with the summary "ETF", has been classified as sell.
C18_Witness ==
    /\ classified.title = <<"Hack", "listing">>
    /\ classified.summary = <<"ETF">>
    /\ classified.action = "Prendre des profits / Reduire"


\* C19, as stated: a news item or a target whose notification was dropped
\* for want of a chat is never notified to a chat afterwards, whatever
\* restarts follow.
C19_DroppedNeverNotified ==
    /\ \A m \in newsOut : m.to # "" => m.key \notin dropped.news
    /\ \A m \in targetOut : m.to # "" => <<m.key, m.kind>> \notin dropped.targets

\* C19, as the code has it.  Every notification of the scheduler goes to
\* CHAT_ID and to no fallback, so it is dropped when CHAT_ID is unset.  The
\* step that drops it (or sends it) and goes on has marked the key in the
\* dedup set in memory, or set the flag of the target in memory, and marks
\* or sets nothing else; the flag is on disk when check_predictions has
\* returned, the key when the save at the end of the iteration has
\* returned, and no other step writes the two files.  A run works from what
\* load_json gave it at its start, and no step, a step the process is killed
\* in included, notifies an item whose key the run loaded or a target whose
\* flag it loaded.  So what was dropped is not notified by a later run that
\* loaded it, and it may be by a run that did not: the write was not
\* reached, raised, or this or a later write of the file was cut short.
kind_flag(kind) == IF kind = "reached" THEN "reached" ELSE "noted"

C19_DroppedYetMarked ==
    [][ /\ startup_to' \in {"-", CHAT_ID_DEFAULT'}
        /\ \A m \in newsOut' \cup targetOut' : m.to = CHAT_ID_DEFAULT'
        /\ \A n \in 1..Len(levelOut') : levelOut'[n].to = CHAT_ID_DEFAULT'
        /\ \A m \in newsOut' \ newsOut : m.key \in seen'
        /\ \A m \in targetOut' \ targetOut :
             /\ flag(seen_targets', m.key, kind_flag(m.kind))
             /\ spc' = "check_user_levels"
                  => flag(load_json(targetsFile', no_targets), m.key,
                          kind_flag(m.kind))
        /\ (spc = "check_predictions" /\ spc' = "check_user_levels")
             => targetsFile' = save_json(seen_targets')
        /\ (spc = "save_seen" /\ spc' = "sleep") => seenFile' = save_json(seen)
        /\ (spc = "start" /\ spc' = "get_prices")
             => /\ seen' = load_json(seenFile, {}) /\ loaded' = seen'
                /\ seen_targets' = load_json(targetsFile, no_targets)
                /\ loaded_targets' = seen_targets'
        /\ (seenFile' # seenFile \/ targetsFile' # targetsFile)
             => \/ spc = "check_predictions" /\ seenFile' = seenFile
                \/ spc = "save_seen" /\ targetsFile' = targetsFile
        /\ (spc # "start" /\ spc' # "start")
             => /\ \A k \in NEWS_KEYS :
                     k \in seen' \ seen <=> newsCount'[k] = newsCount[k] + 1
                /\ \A k \in TARGET_KEYS : \A kind \in {"reached", "approaching"} :
                     (/\ flag(seen_targets', k, kind_flag(kind))
                      /\ ~flag(seen_targets, k, kind_flag(kind)))
                       <=> targetCount'[k][kind] = targetCount[k][kind] + 1
        /\ \A k \in NEWS_KEYS :
             newsCount'[k] > newsCount[k] => k \notin loaded \cup seen
        /\ \A k \in TARGET_KEYS : \A kind \in {"reached", "approaching"} :
             targetCount'[k][kind] > targetCount[k][kind]
               => /\ ~flag(loaded_targets, k, kind_flag(kind))
                  /\ ~flag(seen_targets, k, kind_flag(kind))
      ]_vars

\* A run with CHAT_ID set, started after a kill, has loaded a key and a
\* target flag whose notifications were dropped by an earlier run and
\* written to the files; the feed has returned the item again, the price
\* still reaches the target, the levels were pinged, and neither was
\* notified a second time.
C19_Witness ==
    /\ CHAT_ID_DEFAULT = "1001" /\ startup_to = "1001"
    /\ crashes >= 1
    /\ spc = "save_seen" /\ levelOut # <<>>
    /\ \E k \in dropped.news \cap loaded \cap reoffered : newsCount[k] = 1
    /\ \E t \in dropped.targets :
         /\ t[2] = "reached" /\ targetCount[t[1]].reached = 1
         /\ flag(loaded_targets, t[1], "reached")
         /\ \E n \in 1..Len(pred_list(1)) :
              /\ target_key(pred_list(1)[n]) = t[1]
              /\ \E m \in Range(check_target(pred_list(1)[n], no_targets,
                                              prices, "1001").msgs) :
                   m.kind = "reached"


\* C20: the level monitor notifies once per satisfied level.  As claimed:
\* once check_user_levels has run in an iteration, the number of its
\* notifications for an asset is the number of warn_up levels at or below
\* the USD price, plus the number of break_even levels at or below it, plus
\* the number of danger_down levels at or above it, plus one when the price
\* lies in the buy_zone; an asset whose USD price is unknown has none.
count_if(levels, rising, usd) ==
    Cardinality({n \in 1..Len(levels) :
                    IF rising THEN levels[n] <= usd ELSE levels[n] >= usd})

satisfied_levels(a) ==
    LET usd == px_get(prices, CG_IDS_get(a), "usd")
        cfg == USER_ALERTS[a]
    IN  IF usd = None THEN 0
        ELSE count_if(cfg.warn_up, TRUE, usd)
             + count_if(cfg.break_even, TRUE, usd)
             + count_if(cfg.danger_down, FALSE, usd)
             + (IF /\ Len(cfg.buy_zone) = 2
                   /\ \E n \in 1..2 : cfg.buy_zone[n] <= usd
                   /\ \E n \in 1..2 : cfg.buy_zone[n] >= usd
                THEN 1 ELSE 0)

C20_OnePingPerLevel ==
    levels_ran =>
        \A n \in 1..Len(ALERT_ASSETS) :
            Cardinality({i \in 1..Len(levelOut) :
                            levelOut[i].asset = ALERT_ASSETS[n]})
              = satisfied_levels(ALERT_ASSETS[n])

=============================================================================
